---------------------------- MODULE Spec2Model ----------------------------
(***************************************************************************)
(* A model of the video_uploader package: the publish-schedule generator   *)
(* (utils/auto_tools.py), the batch configuration model (models/douyin.py),*)
(* the Douyin service (services/douyin_service.py) and the multi-platform  *)
(* manager (services/platform_manager.py).                                 *)
(*                                                                         *)
(* The specifications share the variables:                                 *)
(*   SpecSched   generate_schedule_time_next_day applied to drawn inputs   *)
(*   SpecDouyin  DouyinService.upload_video / batch_upload requests        *)
(*   SpecPM      PlatformManager login / upload_video / batch_upload / ... *)
(*   SpecConfig  BatchUploadConfig construction                            *)
(*   SpecDiscovery   PlatformManager construction over a cookie directory  *)
(*   SpecDriver  DouyinUploader.check_cookie / upload_video calls          *)
(*   SpecCfgService  ConfigService load_config / save_config sequences     *)
(*   SpecApi     the /api/v1 endpoints of api/routes.py                    *)
(*   SpecSidecar get_title_and_hashtags applied to drawn files             *)
(*   SpecUpload  one DouyinUploader / DouyinUploaderV2 upload, step by step*)
(*   SpecUploadLive  the same, with a fair driver and a fair platform      *)
(*   SpecScan    login / upload / publish calls on the scan-login drivers  *)
(*   SpecCookieRace  concurrent Douyin logins / uploads on one cookie file *)
(*   SpecBrowserRace concurrent PlatformManager requests on a cached driver*)
(*   SpecShared  PlatformManager login / upload_video for two accounts     *)
(* The variables a specification does not use keep their idle value.       *)
(***************************************************************************)
EXTENDS Integers, Sequences, FiniteSets, TLC

VARIABLES
    schedIn,     \* arguments of the pending/last generate_schedule_time_next_day call
    schedOut,    \* its outcome: [raised, schedule], or Pending
    dsReq,       \* the last request handled by DouyinService
    dsResp,      \* its response
    dsLog,       \* driver events of that request, in order
    accounts,    \* PlatformManager.accounts
    uploaders,   \* PlatformManager.uploaders
    pmReq,       \* the last PlatformManager operation
    pmResp,      \* its response
    pmLog,       \* driver events of that operation, in order
    config_file,    \* the content of ConfigService.config_file
    cached_config,  \* ConfigService._config
    cfgResp,     \* the outcome of the last ConfigService operation
    cfgLog,      \* file accesses of the ConfigService, in order
    up,          \* the driver's side of one step-by-step upload call
    page,        \* the platform's side of it: the page in the browser
    tasks,       \* the coroutines in flight on the event loop, by task id
    shared       \* what they share: cookie files, the cached driver

vars == <<schedIn, schedOut, dsReq, dsResp, dsLog,
          accounts, uploaders, pmReq, pmResp, pmLog,
          config_file, cached_config, cfgResp, cfgLog, up, page,
          tasks, shared>>

schedVars == <<schedIn, schedOut>>
dsVars == <<dsReq, dsResp, dsLog>>
pmVars == <<accounts, uploaders, pmReq, pmResp, pmLog>>
cfgVars == <<config_file, cached_config, cfgResp, cfgLog>>
upVars == <<up, page>>
coVars == <<tasks, shared>>

(***************************************************************************)
(* Bounds of the model.                                                    *)
(***************************************************************************)
MaxVideos == 3        \* longest video list / largest total_videos drawn
MaxTimes == 2         \* longest daily_times list drawn
MaxStartDays == 2     \* largest start_days drawn
MaxOrdinal == 6       \* stands for date.max: the last day a datetime can hold
Today == 2            \* ordinal of the day on which a request starts

(***************************************************************************)
(* Optional values: None is the empty tuple, Some(x) the 1-tuple.          *)
(***************************************************************************)
None == <<>>
Some(x) == <<x>>
IsNone(o) == Len(o) = 0
Get(o) == o[1]

Pending == [raised |-> "pending", schedule |-> <<>>]

(***************************************************************************)
(* datetime: a day ordinal, hour, minute and second (microseconds are      *)
(* folded into second).  date.min has ordinal 1; MaxOrdinal stands for     *)
(* date.max.  replace() rejects an hour outside 0..23 with ValueError and  *)
(* adding a timedelta that leaves the range raises OverflowError.          *)
(***************************************************************************)
MinOrdinal == 1

ValidHour(hour) == 0 <= hour /\ hour <= 23

Representable(day) == MinOrdinal <= day /\ day <= MaxOrdinal

Replace(current_time, hour) ==
    [day |-> current_time.day, hour |-> hour, minute |-> 0, second |-> 0]

PlusDays(t, days) == [t EXCEPT !.day = @ + days]

(***************************************************************************)
(* generate_schedule_time_next_day (utils/auto_tools.py).                  *)
(***************************************************************************)
DefaultDailyTimes == <<6, 11, 14, 16, 22>>

Raise(kind) == [raised |-> kind, schedule |-> <<>>]

DayIndexToday(video_index, videos_per_day, start_days) ==
    (video_index \div videos_per_day) + start_days

DayIndex(video_index, videos_per_day, start_days) ==
    (video_index \div videos_per_day) + start_days + 1

DailyVideoIndexFromEnd(video_index, videos_per_day) ==
    videos_per_day - 1 - (video_index % videos_per_day)

DailyVideoIndex(video_index, videos_per_day) == video_index % videos_per_day

RECURSIVE ScheduleLoop(_, _, _, _, _, _, _)
ScheduleLoop(video_index, total_videos, videos_per_day, daily_times, start_days, current_time, schedule) ==
    IF video_index >= total_videos
    THEN [raised |-> "none", schedule |-> schedule]
    ELSE IF DailyVideoIndex(video_index, videos_per_day) + 1 > Len(daily_times)
    THEN Raise("IndexError")
    ELSE LET day_index == DayIndex(video_index, videos_per_day, start_days)
             hour == daily_times[DailyVideoIndex(video_index, videos_per_day) + 1]
         IN  IF ~ValidHour(hour) THEN Raise("ValueError")
             ELSE IF ~Representable(current_time.day + day_index)
                  THEN Raise("OverflowError")
             ELSE ScheduleLoop(video_index + 1, total_videos, videos_per_day,
                               daily_times, start_days, current_time,
                               Append(schedule,
                                      PlusDays(Replace(current_time, hour),
                                               day_index)))

CheckPerDayNoUpper(videos_per_day, daily_times) ==
    IF videos_per_day <= 0 THEN "ValueError" ELSE "none"

CheckPerDay(videos_per_day, daily_times) ==
    IF videos_per_day <= 0 THEN "ValueError"
    ELSE IF videos_per_day > Len(daily_times) THEN "ValueError"
    ELSE "none"

generate_schedule_time_next_day(total_videos, videos_per_day, daily_times_opt, start_days, current_time) ==
    LET daily_times == IF IsNone(daily_times_opt) THEN DefaultDailyTimes
                       ELSE Get(daily_times_opt)
    IN  IF CheckPerDay(videos_per_day, daily_times) # "none"
        THEN Raise(CheckPerDay(videos_per_day, daily_times))
        ELSE ScheduleLoop(0, total_videos, videos_per_day, daily_times,
                          start_days, current_time, <<>>)

(***************************************************************************)
(* Inputs drawn for the schedule generator.                                *)
(***************************************************************************)
Hours == {9, 21, 24}          \* two hours of the day and one that is not

SeqsUpTo(S, n) == UNION {[1..k -> S] : k \in 0..n}

DailyTimesInputs == {None} \cup {Some(s) : s \in SeqsUpTo(Hours, MaxTimes)}

PerDayInputs == (0 - 1)..(Len(DefaultDailyTimes) + 1)

StartDaysInputs == (0 - 1)..MaxStartDays

Clock == {[day |-> d, hour |-> 10, minute |-> m, second |-> 0] :
            d \in {Today, Today + 1}, m \in {0, 30}}

SchedInputs ==
    [total_videos : (0 - 1)..MaxVideos,
     videos_per_day : PerDayInputs,
     daily_times : DailyTimesInputs,
     start_days : StartDaysInputs,
     now : Clock]

SchedIdle == [total_videos |-> 0, videos_per_day |-> 1, daily_times |-> None,
              start_days |-> 0,
              now |-> [day |-> Today, hour |-> 10, minute |-> 0, second |-> 0]]

InitSched ==
    /\ schedIn \in SchedInputs
    /\ schedOut = Pending

Generate ==
    /\ schedOut = Pending
    /\ schedOut' = generate_schedule_time_next_day(
                      schedIn.total_videos, schedIn.videos_per_day,
                      schedIn.daily_times, schedIn.start_days, schedIn.now)
    /\ UNCHANGED schedIn

(***************************************************************************)
(* BatchUploadConfig (models/douyin.py): the field validators.  An invalid *)
(* field fails construction; daily_times is stored sorted; start_days has  *)
(* no validator.                                                           *)
(***************************************************************************)
RECURSIVE Insert(_, _)
Insert(x, s) ==
    IF s = <<>> THEN <<x>>
    ELSE IF x <= Head(s) THEN <<x>> \o s
    ELSE <<Head(s)>> \o Insert(x, Tail(s))

Unsorted(v) == v

RECURSIVE sorted(_)
sorted(v) == IF v = <<>> THEN <<>> ELSE Insert(Head(v), sorted(Tail(v)))

validate_videos_per_day(v) == v > 0

validate_daily_times(v) ==
    /\ v # <<>>
    /\ \A i \in 1..Len(v) : ValidHour(v[i])

BatchUploadConfig(videos_per_day, daily_times, start_days) ==
    [ok |-> validate_videos_per_day(videos_per_day)
            /\ validate_daily_times(daily_times),
     videos_per_day |-> videos_per_day,
     daily_times |-> sorted(daily_times),
     start_days |-> start_days]

(***************************************************************************)
(* Video files and their sidecar text files.                               *)
(***************************************************************************)
NoTitle == "<None>"

\* A path is [stem, suffix]; a text is a sequence of characters.
VideoPath(stem, suffix) == [stem |-> stem, suffix |-> suffix]

RECURSIVE Join(_)
Join(tokens) == IF tokens = <<>> THEN "" ELSE Head(tokens) \o Join(Tail(tokens))

IsSpace(c) == c \in {" ", "\n"}

RECURSIVE LStrip(_)
LStrip(s) == IF s # <<>> /\ IsSpace(Head(s)) THEN LStrip(Tail(s)) ELSE s

RECURSIVE RStrip(_)
RStrip(s) ==
    IF s # <<>> /\ IsSpace(s[Len(s)]) THEN RStrip(SubSeq(s, 1, Len(s) - 1))
    ELSE s

\* str.strip()
strip(s) == RStrip(LStrip(s))

\* str.split(sep): always at least one piece
RECURSIVE split(_, _)
split(s, sep) ==
    IF \A k \in 1..Len(s) : s[k] # sep THEN <<s>>
    ELSE LET k == CHOOSE i \in 1..Len(s) :
                      s[i] = sep /\ \A j \in 1..(i - 1) : s[j] # sep
         IN  <<SubSeq(s, 1, k - 1)>> \o split(SubSeq(s, k + 1, Len(s)), sep)

\* str.replace(c, "")
Remove(s, c) == SelectSeq(s, LAMBDA x : x # c)

\* the files next to the videos: a.txt holds a title line and a tag line,
\* b.mp4 has no text file, c.txt cannot be read, d.txt is empty, and
\* e.mov is a video whose bytes do not decode as text
TextFile(readable, text) == [readable |-> readable, text |-> text]

Binary == TextFile(FALSE, <<>>)

FileSystem ==
    (VideoPath("a", ".mp4") :> Binary)
    @@ (VideoPath("a", ".txt")
          :> TextFile(TRUE, <<"s", "i", "d", "e", "\n", "#", "s", " ">>))
    @@ (VideoPath("b", ".mp4") :> Binary)
    @@ (VideoPath("c", ".mp4") :> Binary)
    @@ (VideoPath("c", ".txt") :> TextFile(FALSE, <<>>))
    @@ (VideoPath("d", ".mp4") :> Binary)
    @@ (VideoPath("d", ".txt") :> TextFile(TRUE, <<>>))
    @@ (VideoPath("e", ".mov") :> Binary)

VideoPaths == {f \in DOMAIN FileSystem : f.suffix \in {".mp4", ".mov"}}

\* Path(filename).stem
Stem(video_path) == video_path.stem

\* filename.replace(".mp4", ".txt")
TxtFilename(filename) ==
    [filename EXCEPT !.suffix = IF @ = ".mp4" THEN ".txt" ELSE @]

\* os.path.exists(txt_filename)
SidecarExists(files, txt_filename) == txt_filename \in DOMAIN files

\* the tags of the second line
Hashtags(hashtags_line) ==
    LET pieces == split(Remove(hashtags_line, "#"), " ")
        kept == SelectSeq(pieces, LAMBDA tag : strip(tag) # <<>>)
    IN  [k \in 1..Len(kept) |-> Join(strip(kept[k]))]

\* the lines as a reader of the file counts them
RawLines(content) == split(content, "\n")

\* content.strip().split("\n")
ContentLines(content) == split(strip(content), "\n")

\* files maps each existing path to its file
get_title_and_hashtags(files, filename) ==
    LET txt_filename == TxtFilename(filename)
        fallback == [title |-> Stem(filename), tags |-> <<>>]
    IN  IF ~SidecarExists(files, txt_filename) THEN fallback
        ELSE IF ~files[txt_filename].readable THEN fallback
        ELSE LET lines == ContentLines(files[txt_filename].text)
             IN  IF Len(lines) >= 2
                 THEN [title |-> Join(strip(lines[1])),
                       tags |-> Hashtags(strip(lines[2]))]
                 ELSE [title |-> Join(strip(lines[1])), tags |-> <<>>]

FalsyAlways(title) == TRUE

Falsy(title) == title = NoTitle \/ title = ""

Videos == [video_path : VideoPaths, title : {NoTitle, "", "T"},
           tags : {<<>>, <<"g">>}]

BatchVideos == {[video_path |-> VideoPath("a", ".mp4"), title |-> "T",
                 tags |-> <<"g">>],
                [video_path |-> VideoPath("b", ".mp4"), title |-> NoTitle,
                 tags |-> <<>>]}

(***************************************************************************)
(* DouyinService (services/douyin_service.py).  The driver is the          *)
(* environment: env.check_cookie and env.upload are what the two driver    *)
(* calls of one request do (return true, return false, or raise).          *)
(***************************************************************************)
DriverOutcome == {"true", "false", "raise"}

\* the upload outcome is drawn only where the cookie check lets it matter
DriverEnv == {e \in [check_cookie : DriverOutcome, upload : DriverOutcome] :
                 e.check_cookie = "true" \/ e.upload = "false"}

Event(ev, drv, ret, publish_date) ==
    [ev |-> ev, drv |-> drv, ret |-> ret, publish_date |-> publish_date]

\* uploader.upload_video(video_path=..., title=..., tags=..., ...)
UploadCall(drv, ret, publish_date, video_info) ==
    [ev |-> "upload_video", drv |-> drv, ret |-> ret,
     publish_date |-> publish_date, video_path |-> video_info.video_path,
     title |-> video_info.title, tags |-> video_info.tags]

UploadResponse(success, message, title) ==
    [success |-> success, message |-> message, title |-> title]

ResolveVideoInfo(video_info) ==
    IF Falsy(video_info.title) \/ video_info.tags = <<>>
    THEN LET auto == get_title_and_hashtags(FileSystem, video_info.video_path)
         IN  [video_info EXCEPT
                 !.title = IF Falsy(@) THEN auto.title ELSE @,
                 !.tags = IF @ = <<>> THEN auto.tags ELSE @]
    ELSE video_info

\* the guard of line 111: may the upload step run?
CookieGateOpen(check) == TRUE

CookieGate(check) == check = "true"

\* one upload_video call, made on driver instance drv; [resp, log]
DS_upload_video(request, env, drv) ==
    LET video_info == ResolveVideoInfo(request.video_info)
        created == <<Event("new", drv, "-", request.publish_date)>>
        checked == Append(created,
                          Event("check_cookie", drv, env.check_cookie,
                                request.publish_date))
        uploaded == Append(checked,
                           UploadCall(drv, env.upload, request.publish_date,
                                      video_info))
    IN  IF env.check_cookie = "raise"
        THEN [resp |-> UploadResponse(FALSE, "upload failed: error", NoTitle),
              log |-> checked]
        ELSE IF ~CookieGate(env.check_cookie)
        THEN [resp |-> UploadResponse(FALSE, "cookie invalid, login again",
                                      NoTitle),
              log |-> checked]
        ELSE IF env.upload = "raise"
        THEN [resp |-> UploadResponse(FALSE, "upload failed: error", NoTitle),
              log |-> uploaded]
        ELSE IF env.upload = "true"
        THEN [resp |-> UploadResponse(TRUE, "video uploaded", video_info.title),
              log |-> uploaded]
        ELSE [resp |-> UploadResponse(FALSE, "video upload failed", NoTitle),
              log |-> uploaded]

BatchUploadResponse(success, message, total_videos, success_count, results) ==
    [success |-> success, message |-> message, total_videos |-> total_videos,
     success_count |-> success_count, results |-> results]

CountAll(results) == Len(results)

RECURSIVE CountSuccess(_)
CountSuccess(results) ==
    IF results = <<>> THEN 0
    ELSE (IF Head(results).success THEN 1 ELSE 0) + CountSuccess(Tail(results))

\* the loop of lines 172-185: item i gets publish_times[i] and driver i
RECURSIVE DS_batch_loop(_, _, _, _, _, _)
DS_batch_loop(i, video_list, publish_times, envs, results, log) ==
    IF i > Len(video_list) THEN [results |-> results, log |-> log]
    ELSE LET publish_date == IF i <= Len(publish_times)
                             THEN Some(publish_times[i]) ELSE None
             upload_request == [video_info |-> video_list[i],
                                publish_date |-> publish_date]
             r == DS_upload_video(upload_request, envs[i], i)
         IN  DS_batch_loop(i + 1, video_list, publish_times, envs,
                           Append(results, r.resp), log \o r.log)

\* the configuration check of line 154
PerDayExceedsNever(config) == FALSE

PerDayExceeds(config) == config.videos_per_day > Len(config.daily_times)

DS_batch_upload(request, envs, now) ==
    LET config == request.config
        video_list == request.video_list
    IN  IF PerDayExceeds(config)
        THEN [resp |-> BatchUploadResponse(FALSE, "more videos per day than times",
                                           Len(video_list), 0, <<>>),
              log |-> <<>>]
        ELSE LET sched == generate_schedule_time_next_day(
                              Len(video_list), config.videos_per_day,
                              Some(config.daily_times), config.start_days, now)
             IN  IF sched.raised # "none"
                 THEN [resp |-> BatchUploadResponse(FALSE, "batch upload failed: error",
                                                    Len(video_list), 0, <<>>),
                       log |-> <<>>]
                 ELSE LET done == DS_batch_loop(1, video_list, sched.schedule,
                                                envs, <<>>, <<>>)
                      IN  [resp |-> BatchUploadResponse(
                                       TRUE, "batch upload finished",
                                       Len(video_list),
                                       CountSuccess(done.results),
                                       done.results),
                           log |-> done.log]

(***************************************************************************)
(* Requests drawn for the Douyin service.                                  *)
(***************************************************************************)
MaxBatch == 2         \* longest video list of a Douyin batch request

DsIdleReq == [op |-> "none"]
DsIdleResp == [success |-> FALSE, message |-> "none"]

PublishDates == {None} \cup
    {Some([day |-> Today + 1, hour |-> 9, minute |-> 0, second |-> 0])}

\* a single upload request and what the driver does for it
DsUploadRequest(video_info, publish_date, env) ==
    [op |-> "upload_video",
     request |-> [video_info |-> video_info, publish_date |-> publish_date],
     env |-> env]

\* a batch request: a validated config, a video list, what the driver does
\* for each item, the day the request arrives and the clock read by the
\* schedule generator (midnight may pass in between)
DsBatchRequest(config, video_list, envs, now) ==
    [op |-> "batch_upload",
     request |-> [config |-> config, video_list |-> video_list],
     envs |-> envs, now |-> now, started |-> Today]

InitDouyin ==
    /\ \/ \E video_info \in Videos, publish_date \in PublishDates,
             env \in DriverEnv :
            dsReq = DsUploadRequest(video_info, publish_date, env)
       \/ \E videos_per_day \in 0..(MaxTimes + 1),
             daily_times \in SeqsUpTo(Hours, MaxTimes),
             start_days \in StartDaysInputs,
             video_list \in SeqsUpTo(BatchVideos, MaxBatch),
             now \in {t \in Clock : t.minute = 30} :
            LET config == BatchUploadConfig(videos_per_day, daily_times,
                                            start_days)
            IN  /\ config.ok
                /\ \E envs \in [1..Len(video_list) -> DriverEnv] :
                     dsReq = DsBatchRequest(config, video_list, envs, now)
    /\ dsResp = DsIdleResp
    /\ dsLog = <<>>

DsUploadVideo ==
    /\ dsReq.op = "upload_video"
    /\ dsResp = DsIdleResp
    /\ LET r == DS_upload_video(dsReq.request, dsReq.env, 1)
       IN  /\ dsResp' = r.resp
           /\ dsLog' = r.log
    /\ UNCHANGED dsReq

DsBatchUpload ==
    /\ dsReq.op = "batch_upload"
    /\ dsResp = DsIdleResp
    /\ LET r == DS_batch_upload(dsReq.request, dsReq.envs, dsReq.now)
       IN  /\ dsResp' = r.resp
           /\ dsLog' = r.log
    /\ UNCHANGED dsReq

(***************************************************************************)
(* DouyinUploader (core/douyin_uploader.py), the Douyin driver itself.     *)
(*                                                                         *)
(* One call is a run through its browser steps.  env says what the         *)
(* browser does: env.cookie is the cookie file (None: no such file),       *)
(* env.raise_at the step that raises, and for each of the closing calls    *)
(* and the screenshot whether it raises.  Steps whose body is one          *)
(* try/except (or a retry loop around one) never raise to their caller.    *)
(***************************************************************************)
DuEvent(ev, ret) == Event(ev, 1, ret, None)

\* the statements of _upload_video_impl ahead of its try block
SetupSteps == <<"launch", "new_context", "_set_init_script", "new_page",
                "_setup_page_permissions">>

\* the statements inside the try block
BodySteps(thumbnail_path, publish_date) ==
    <<"goto", "wait_for_url", "set_input_files", "_wait_for_publish_page",
      "_fill_title_and_tags", "_wait_for_upload_complete">>
    \o (IF thumbnail_path THEN <<"_set_thumbnail">> ELSE <<>>)
    \o <<"_set_location", "_set_third_party_sync">>
    \o (IF publish_date # None THEN <<"_set_schedule_time">> ELSE <<>>)
    \o <<"_publish_video", "storage_state", "sleep">>

\* the steps of an upload that can raise to _upload_video_impl
UploadRaisePoints == {"launch", "new_context", "new_page", "goto",
                      "wait_for_url", "set_input_files",
                      "_fill_title_and_tags", "_publish_video",
                      "storage_state"}

\* the helpers that are one try / except Exception block
NonCriticalSteps == {"_set_thumbnail", "_set_location",
                     "_set_third_party_sync", "_set_schedule_time"}

SwallowsNothing(step) == FALSE

Swallows(step) == step \in NonCriticalSteps

\* a failure inside the step: an exception, or no selector that matches
StepFails(step, env) == Swallows(step) /\ step \in env.failing

\* new_context reads the cookie file as its storage state
StepRaises(step, env) ==
    \/ step = env.raise_at
    \/ step = "new_context" /\ env.cookie = None
    \/ step \in NonCriticalSteps /\ step \in env.failing /\ ~Swallows(step)

\* runs steps[i..] in order up to the first one that raises; [log, raised]
RECURSIVE RunSteps(_, _, _, _)
RunSteps(steps, i, env, log) ==
    IF i > Len(steps) THEN [log |-> log, raised |-> FALSE]
    ELSE IF StepRaises(steps[i], env)
    THEN [log |-> Append(log, DuEvent(steps[i], "raise")), raised |-> TRUE]
    ELSE RunSteps(steps, i + 1, env,
                  Append(log, DuEvent(steps[i], IF StepFails(steps[i], env)
                                                THEN "failed" ELSE "ok")))

\* await context.close(); await browser.close()
CloseBoth(log, env) ==
    LET ctx == Append(log, DuEvent("context.close",
                                   IF env.context_close_raises
                                   THEN "raise" ELSE "ok"))
    IN  IF env.context_close_raises
        THEN [log |-> ctx, raised |-> TRUE]
        ELSE [log |-> Append(ctx, DuEvent("browser.close",
                                          IF env.browser_close_raises
                                          THEN "raise" ELSE "ok")),
              raised |-> env.browser_close_raises]

StepOk(log, ev) == \E k \in 1..Len(log) : log[k].ev = ev /\ log[k].ret = "ok"

\* _upload_video_impl; outcome is "true", "false" or "raise"
DU_upload_video_impl(request, env) ==
    LET setup == RunSteps(SetupSteps, 1, env, <<>>)
    IN  IF setup.raised
        THEN [log |-> setup.log, outcome |-> "raise", cookie |-> env.cookie]
        ELSE LET body == RunSteps(BodySteps(request.thumbnail_path,
                                            request.publish_date),
                                  1, env, setup.log)
                 handled == IF body.raised
                            THEN Append(body.log,
                                        DuEvent("screenshot",
                                                IF env.screenshot_raises
                                                THEN "raise" ELSE "ok"))
                            ELSE body.log
                 closed == CloseBoth(handled, env)
             IN  [log |-> closed.log,
                  outcome |-> IF closed.raised THEN "raise"
                              ELSE IF ~body.raised THEN "true"
                              ELSE IF env.screenshot_raises THEN "raise"
                              ELSE "false",
                  cookie |-> IF StepOk(body.log, "storage_state")
                             THEN Some("fresh") ELSE env.cookie]

DuResponse(success, cookie) ==
    [success |-> success, message |-> "returned", cookie |-> cookie]

\* upload_video: the playwright session wraps the implementation
DU_upload_video(request, env) ==
    LET r == DU_upload_video_impl(request, env)
    IN  [resp |-> DuResponse(r.outcome = "true", r.cookie),
         log |-> Append(r.log, DuEvent("playwright.exit", "ok"))]

\* the login prompts looked for by check_cookie
PromptPhoneOnly(phone, qr) == phone

PromptPresent(phone, qr) == phone \/ qr

CheckSteps == <<"launch", "new_context", "_set_init_script", "new_page",
                "goto">>

CheckRaisePoints == {"launch", "new_context", "new_page", "goto",
                     "count_phone", "count_qr"}

\* the two get_by_text(...).count() calls; the second runs only when the
\* first found nothing
CountPrompts(log, env) ==
    LET phone == Append(log, DuEvent("count_phone",
                                     IF env.raise_at = "count_phone"
                                     THEN "raise"
                                     ELSE IF env.phone THEN "1" ELSE "0"))
    IN  IF env.raise_at = "count_phone" THEN [log |-> phone, raised |-> TRUE]
        ELSE IF env.phone THEN [log |-> phone, raised |-> FALSE]
        ELSE [log |-> Append(phone,
                             DuEvent("count_qr",
                                     IF env.raise_at = "count_qr"
                                     THEN "raise"
                                     ELSE IF env.qr THEN "1" ELSE "0")),
              raised |-> env.raise_at = "count_qr"]

\* check_cookie; [result, log]
DU_check_cookie(env) ==
    IF env.cookie = None THEN [result |-> FALSE, log |-> <<>>]
    ELSE LET opened == RunSteps(CheckSteps, 1, env, <<>>)
             waited == Append(opened.log,
                              DuEvent("wait_for_url",
                                      IF env.wait_ok THEN "ok" ELSE "raise"))
             counted == CountPrompts(waited, env)
             exit(log) == Append(log, DuEvent("playwright.exit", "ok"))
         IN  IF opened.raised
             THEN [result |-> FALSE, log |-> exit(opened.log)]
             ELSE IF ~env.wait_ok
             THEN [result |-> FALSE, log |-> exit(CloseBoth(waited, env).log)]
             ELSE IF counted.raised
             THEN [result |-> FALSE, log |-> exit(counted.log)]
             ELSE LET closed == CloseBoth(counted.log, env)
                  IN  [result |-> ~PromptPresent(env.phone, env.qr)
                                  /\ ~closed.raised,
                       log |-> exit(closed.log)]

(***************************************************************************)
(* Calls drawn for the Douyin driver.                                      *)
(***************************************************************************)
Cookies == {None, Some("stored")}

DuUploadEnvs ==
    [cookie : Cookies, raise_at : UploadRaisePoints \cup {"none"},
     failing : SUBSET NonCriticalSteps, screenshot_raises : BOOLEAN,
     context_close_raises : BOOLEAN, browser_close_raises : BOOLEAN]

DuCheckEnvs ==
    [cookie : Cookies, raise_at : CheckRaisePoints \cup {"none"},
     wait_ok : BOOLEAN, phone : BOOLEAN, qr : BOOLEAN,
     context_close_raises : BOOLEAN, browser_close_raises : BOOLEAN]

InitDriver ==
    /\ \/ \E thumbnail_path \in BOOLEAN, publish_date \in PublishDates,
             env \in DuUploadEnvs :
            dsReq = [op |-> "driver.upload_video",
                     request |-> [thumbnail_path |-> thumbnail_path,
                                  publish_date |-> publish_date],
                     env |-> env]
       \/ \E env \in DuCheckEnvs :
            dsReq = [op |-> "driver.check_cookie", env |-> env]
    /\ dsResp = DsIdleResp
    /\ dsLog = <<>>

DuUploadVideo ==
    /\ dsReq.op = "driver.upload_video"
    /\ dsResp = DsIdleResp
    /\ LET r == DU_upload_video(dsReq.request, dsReq.env)
       IN  /\ dsResp' = r.resp
           /\ dsLog' = r.log
    /\ UNCHANGED dsReq

DuCheckCookie ==
    /\ dsReq.op = "driver.check_cookie"
    /\ dsResp = DsIdleResp
    /\ LET r == DU_check_cookie(dsReq.env)
       IN  /\ dsResp' = DuResponse(r.result, dsReq.env.cookie)
           /\ dsLog' = r.log
    /\ UNCHANGED dsReq

(***************************************************************************)
(* DouyinService.check_account_status (services/douyin_service.py).        *)
(* The driver's check_cookie is the one modelled above; env.fault names a  *)
(* call inside the try block that raises instead (the constructor, or a    *)
(* check_cookie that lets an exception out).                               *)
(***************************************************************************)
DsAccountNames == {"test_account"}

\* Config.get_cookie_file_path
get_cookie_file_path(account_name) ==
    "cookies/douyin_" \o account_name \o ".json"

DouyinAccount(name, cookie_file, is_logged_in) ==
    [name |-> name, cookie_file |-> cookie_file, is_logged_in |-> is_logged_in]

\* cookie_file.exists()
ExistsAlways(cookie) == TRUE

Exists(cookie) == cookie # None

StatusFaults == {"none", "construct", "check_cookie"}

\* [account, cookie, log]: the account returned, the cookie file afterwards
\* and the driver events
DS_check_account_status(account_name, env) ==
    LET cookie_file == get_cookie_file_path(account_name)
        created == <<Event("new", 1, IF env.fault = "construct"
                                     THEN "raise" ELSE "-", None)>>
        r == DU_check_cookie(env.driver)
        ret == IF env.fault = "check_cookie" THEN "raise"
               ELSE IF r.result THEN "true" ELSE "false"
        checked == (created \o (IF env.fault = "check_cookie"
                                THEN <<>> ELSE r.log))
                   \o <<Event("check_cookie", 1, ret, None)>>
    IN  IF ~Exists(env.driver.cookie)
        THEN [account |-> DouyinAccount(account_name, cookie_file, FALSE),
              cookie |-> env.driver.cookie, log |-> <<>>]
        ELSE IF env.fault = "construct"
        THEN [account |-> DouyinAccount(account_name, cookie_file, FALSE),
              cookie |-> env.driver.cookie, log |-> created]
        ELSE IF env.fault = "check_cookie"
        THEN [account |-> DouyinAccount(account_name, cookie_file, FALSE),
              cookie |-> env.driver.cookie, log |-> checked]
        ELSE [account |-> DouyinAccount(account_name, cookie_file, r.result),
              cookie |-> env.driver.cookie, log |-> checked]

InitStatus ==
    /\ \E account_name \in DsAccountNames, driver \in DuCheckEnvs,
          fault \in StatusFaults :
         dsReq = [op |-> "check_account_status",
                  account_name |-> account_name,
                  env |-> [driver |-> driver, fault |-> fault]]
    /\ dsResp = DsIdleResp
    /\ dsLog = <<>>

DsCheckAccountStatus ==
    /\ dsReq.op = "check_account_status"
    /\ dsResp = DsIdleResp
    /\ LET r == DS_check_account_status(dsReq.account_name, dsReq.env)
       IN  /\ dsResp' = [account |-> r.account, cookie |-> r.cookie]
           /\ dsLog' = r.log
    /\ UNCHANGED dsReq

(***************************************************************************)
(* PlatformManager (services/platform_manager.py).                         *)
(*                                                                         *)
(* accounts maps a key <<platform, name>> (the string "<platform>_<name>") *)
(* to an account record; uploaders maps a platform to a driver record.     *)
(* The operations are operators on st = [accounts, uploaders, log].        *)
(***************************************************************************)
supported_platforms == {"douyin", "wechat_channel", "xiaohongshu"}

\* the names bound in the module by the imports of lines 9-18
ModuleGlobals == {"DouyinUploader", "WechatChannelUploader",
                  "XiaohongshuUploader", "logger"}

\* the class name the two Douyin adapters look up (lines 294 and 330)
AdapterClassName == "DouYinUploader"

\* DouyinUploader.upload_video (core/douyin_uploader.py): its parameters,
\* those without a default, and the keywords the adapter passes (line 351)
UploadParams == {"video_path", "title", "tags", "thumbnail_path",
                 "publish_date", "location"}
UploadRequired == {"video_path", "title", "tags"}
AdapterKeywords == {"video_info", "publish_date"}

CallAccepted(keywords) ==
    keywords \subseteq UploadParams /\ UploadRequired \subseteq keywords

\* a key that leaves the platform out
AccountKeyByName(platform, name) == <<"douyin", name>>

\* account_key = f"{platform}_{name}"
AccountKey(platform, name) == <<platform, name>>

Account(platform, name, is_logged_in, cookie_file) ==
    [name |-> name, platform |-> platform, is_logged_in |-> is_logged_in,
     cookie_file |-> cookie_file]

\* Path(f"cookies/{platform}_{name}.json")
CookiePath(platform, name) ==
    Some("cookies/" \o platform \o "_" \o name \o ".json")

Driver(cls, browser, is_logged_in, current_account) ==
    [cls |-> cls, browser |-> browser, is_logged_in |-> is_logged_in,
     current_account |-> current_account]

NoneDriver == Driver("None", FALSE, FALSE, None)

PmEvent(ev, platform, ret, video) ==
    [ev |-> ev, platform |-> platform, ret |-> ret, video |-> video]

NoVideo == [video_path |-> "-", title |-> NoTitle, tags |-> <<>>]

Put(f, k, v) == [x \in DOMAIN f \cup {k} |-> IF x = k THEN v ELSE f[x]]

Logged(st, e) == [st EXCEPT !.log = Append(@, e)]

\* A driver keeps a reference to the account object of its last login; once
\* the registry entry is replaced by another object that reference no longer
\* reaches the registry.
Detach(ups, key) ==
    [p \in DOMAIN ups |->
        IF ups[p].current_account = Some(key)
        THEN [ups[p] EXCEPT !.current_account = Some(<<"detached", key[2]>>)]
        ELSE ups[p]]

\* The exceptions the manager's code paths raise; all are subclasses of
\* Exception.  Raising is recorded in the log; a public operation that lets
\* one escape ends with Propagated instead of a response.
ExceptionKinds == {"NameError", "TypeError", "UnboundLocalError",
                   "ValidationError", "AttributeError", "Error"}

ExceptCatchesNone(kind) == FALSE

\* "except Exception as e" (lines 103, 166, 203, 269, 311, 358)
ExceptCatches(kind) == kind \in ExceptionKinds

Raised(st, platform, kind) == Logged(st, PmEvent("raise", platform, kind, NoVideo))

Propagated(kind) == [propagated |-> kind]

IsPropagated(resp) == "propagated" \in DOMAIN resp

\* add_account
PM_add_account(st, account) ==
    IF account.platform \notin supported_platforms
    THEN [st |-> st, ok |-> FALSE]
    ELSE LET key == AccountKey(account.platform, account.name)
         IN  [st |-> [st EXCEPT !.accounts = Put(@, key, account),
                                !.uploaders = Detach(@, key)],
              ok |-> TRUE]

HasAccount(st, platform, name) == AccountKey(platform, name) \in DOMAIN st.accounts

\* _create_account
CanCreate(platform) == platform \in {"douyin", "wechat_channel", "xiaohongshu"}

NeedsStartAlways(uploader) == TRUE

\* line 242: not hasattr(uploader, 'browser') or not uploader.browser
NeedsStart(uploader) == ~uploader.browser

\* lines 240-245: the browser of the cached driver is started when it has
\* none; made is the state after lines 226-238
StartIfNeeded(made, platform, start) ==
    IF platform \notin DOMAIN made.uploaders
    THEN [st |-> made, uploader |-> "None"]
    ELSE IF platform # "douyin" /\ made.uploaders[platform].cls # "None"
            /\ NeedsStart(made.uploaders[platform])
    THEN IF start = "raise"
         THEN [st |-> Raised(Logged(made,
                                    PmEvent("start_browser", platform,
                                            "raise", NoVideo)),
                             platform, "Error"),
               uploader |-> "raise"]
         ELSE [st |-> Logged([made EXCEPT
                                 !.uploaders[platform].browser = TRUE],
                             PmEvent("start_browser", platform, "ok",
                                     NoVideo)),
               uploader |-> "driver"]
    ELSE [st |-> made,
          uploader |-> IF made.uploaders[platform].cls = "None" THEN "None"
                       ELSE "driver"]

\* _get_uploader: [st, uploader], uploader one of "driver", "None", "raise"
PM_get_uploader(st, platform, start) ==
    StartIfNeeded(
        IF platform \in DOMAIN st.uploaders THEN st
        ELSE IF platform = "douyin"
        THEN [st EXCEPT !.uploaders = Put(@, platform, NoneDriver)]
        ELSE IF platform = "wechat_channel"
        THEN Logged([st EXCEPT !.uploaders =
                        Put(@, platform,
                            Driver("WechatChannelUploader", FALSE, FALSE, None))],
                    PmEvent("construct", platform, "-", NoVideo))
        ELSE IF platform = "xiaohongshu"
        THEN Logged([st EXCEPT !.uploaders =
                        Put(@, platform,
                            Driver("XiaohongshuUploader", FALSE, FALSE, None))],
                    PmEvent("construct", platform, "-", NoVideo))
        ELSE st,
        platform, start)

\* the driver's _save_cookies(account): writes the file named after
\* account.name and sets account.cookie_file on the object it was given,
\* which is the registry's entry unless that entry was replaced since
SaveCookies(st, platform, key, save_ok) ==
    IF ~save_ok THEN st
    ELSE Logged(IF key \in DOMAIN st.accounts
                THEN [st EXCEPT !.accounts[key].cookie_file =
                                   CookiePath(platform, key[2])]
                ELSE st,
                PmEvent("_save_cookies", platform, key[2], NoVideo))

\* WechatChannelUploader.login / XiaohongshuUploader.login: [st, success]
DriverLogin(st, platform, key, env) ==
    LET s1 == IF platform = "wechat_channel"
              THEN [st EXCEPT !.uploaders[platform].current_account = Some(key)]
              ELSE st
        loaded == ~IsNone(s1.accounts[key].cookie_file) /\ env.cookies_ok
        tryVerify == IF platform = "wechat_channel" THEN TRUE ELSE loaded
        success == (tryVerify /\ env.verify) \/ env.scan
        s2 == IF tryVerify /\ env.verify
              THEN [s1 EXCEPT !.uploaders[platform].is_logged_in = TRUE]
              ELSE IF env.scan
              THEN [SaveCookies(s1, platform, key, env.save_ok)
                      EXCEPT !.uploaders[platform].is_logged_in = TRUE]
              ELSE s1
    IN  [st |-> Logged(s2, PmEvent("login", platform,
                                   IF success THEN "true" ELSE "false", NoVideo)),
         success |-> success]

NameBound(name) == name \in ModuleGlobals

\* _login_douyin: [st, success]
PM_login_douyin(st, key, env) ==
    IF ~NameBound(AdapterClassName)
    THEN [st |-> Raised(st, "douyin", "NameError"),   \* handler of line 311
          success |-> FALSE, escaped |-> ~ExceptCatches("NameError")]
    ELSE LET s1 == [st EXCEPT !.uploaders =
                       Put(@, "douyin", Driver("DouyinUploader", FALSE, FALSE, None))]
             success == env.scan
             s2 == IF success
                   THEN [s1 EXCEPT !.accounts[key].cookie_file =
                                      CookiePath("douyin", key[2])]
                   ELSE s1
         IN  [st |-> Logged(s2, PmEvent("login", "douyin",
                                        IF success THEN "true" ELSE "false",
                                        NoVideo)),
              success |-> success, escaped |-> FALSE]

LoginResponse(success, message, cookie_file, account) ==
    [success |-> success, message |-> message, cookie_file |-> cookie_file,
     account |-> account]

LoginFailed(message) == LoginResponse(FALSE, message, None, None)

\* a manager that takes a failed login as a logout
LoginOutcomeResets(d, key) ==
    IF d.success
    THEN [st |-> [d.st EXCEPT !.accounts[key].is_logged_in = TRUE],
          resp |-> LoginResponse(TRUE, "logged in",
                                 d.st.accounts[key].cookie_file,
                                 Some([d.st.accounts[key]
                                         EXCEPT !.is_logged_in = TRUE]))]
    ELSE [st |-> [d.st EXCEPT !.accounts[key].is_logged_in = FALSE],
          resp |-> LoginFailed("login failed")]

\* lines 89-101: the response built from the driver's verdict d = [st, success]
LoginOutcome(d, key) ==
    IF d.success
    THEN [st |-> [d.st EXCEPT !.accounts[key].is_logged_in = TRUE],
          resp |-> LoginResponse(TRUE, "logged in",
                                 d.st.accounts[key].cookie_file,
                                 Some([d.st.accounts[key]
                                         EXCEPT !.is_logged_in = TRUE]))]
    ELSE [st |-> d.st, resp |-> LoginFailed("login failed")]

\* the handler of lines 103-108
LoginError(st, kind) ==
    IF ExceptCatches(kind) THEN [st |-> st, resp |-> LoginFailed("login error")]
    ELSE [st |-> st, resp |-> Propagated(kind)]

\* lines 75-77: the Douyin branch, d the outcome of _login_douyin
LoginDouyin(d, key) ==
    IF d.escaped THEN LoginError(d.st, "NameError") ELSE LoginOutcome(d, key)

\* lines 79-87: the other platforms, g the outcome of _get_uploader
LoginWith(g, platform, key, env) ==
    IF g.uploader = "raise" THEN LoginError(g.st, "Error")
    ELSE IF g.uploader = "None"
    THEN [st |-> g.st, resp |-> LoginFailed("cannot create uploader")]
    ELSE LoginOutcome(DriverLogin(g.st, platform, key, env), key)

\* lines 72-87: s1 is the state with the account present
LoginDispatch(s1, platform, key, env) ==
    IF platform = "douyin"
    THEN LoginDouyin(PM_login_douyin(s1, key, env), key)
    ELSE LoginWith(PM_get_uploader(s1, platform, env.start), platform, key,
                   env)

\* login: [st, resp]
PM_login(st, platform, name, env) ==
    IF ~HasAccount(st, platform, name) /\ ~CanCreate(platform)
    THEN [st |-> st, resp |-> LoginFailed("unsupported platform")]
    ELSE LoginDispatch(IF HasAccount(st, platform, name) THEN st
                       ELSE PM_add_account(st, Account(platform, name, FALSE,
                                                       None)).st,
                       platform, AccountKey(platform, name), env)

\* _convert_video_info: "raise" when the platform model rejects the data
\* (XiaohongshuVideoInfo needs a description, taken from the title)
ConvertVideoInfo(platform, video_info) ==
    IF platform = "xiaohongshu" /\ video_info.title = NoTitle THEN "raise"
    ELSE IF platform \in supported_platforms THEN "ok"
    ELSE "None"

\* the driver's upload_video on the shared instance: [st, success]
DriverUpload(st, platform, video_info, env) ==
    LET uploader == st.uploaders[platform]
        verified == uploader.is_logged_in \/ env.verify
        s1 == IF verified
              THEN [st EXCEPT !.uploaders[platform].is_logged_in = TRUE]
              ELSE st
        published == env.outcome \in {"publish_true", "publish_false"}
        s2 == IF verified /\ published /\ platform = "wechat_channel"
                 /\ ~IsNone(uploader.current_account)
              THEN SaveCookies(s1, platform, Get(uploader.current_account),
                               env.save_ok)
              ELSE s1
        success == verified /\ env.outcome = "publish_true"
    IN  [st |-> Logged(s2, PmEvent("upload_video", platform,
                                   IF success THEN "true" ELSE "false",
                                   video_info)),
         success |-> success]

\* _upload_douyin: [st, success]
PM_upload_douyin(st, key, video_info, env) ==
    LET cached == "douyin" \in DOMAIN st.uploaders
                  /\ st.uploaders["douyin"].cls # "None"
    IN  IF ~cached /\ ~NameBound(AdapterClassName)
        THEN [st |-> Raised(st, "douyin", "NameError"),   \* handler of line 358
              success |-> FALSE, escaped |-> ~ExceptCatches("NameError")]
        ELSE LET s1 == IF cached THEN st
                       ELSE [st EXCEPT !.uploaders =
                                Put(@, "douyin",
                                    Driver("DouyinUploader", FALSE, FALSE, None))]
             IN  IF ~CallAccepted(AdapterKeywords)
                 THEN [st |-> Raised(s1, "douyin", "TypeError"),
                       success |-> FALSE, escaped |-> ~ExceptCatches("TypeError")]
                 ELSE [st |-> Logged(s1, PmEvent("upload_video", "douyin",
                                         IF env.outcome = "publish_true"
                                         THEN "true" ELSE "false", video_info)),
                       success |-> env.outcome = "publish_true", escaped |-> FALSE]

UploadFailed(message) == UploadResponse(FALSE, message, NoTitle)

\* line 120: the account's flag
LoggedInAlways(account) == TRUE

LoggedIn(account) == account.is_logged_in

\* the handler of lines 166-171
UploadError(st, platform, kind) ==
    IF ExceptCatches(kind) THEN [st |-> st, resp |-> UploadFailed("upload error")]
    ELSE [st |-> st, resp |-> Propagated(kind)]

\* lines 133-135 and 156-164: the Douyin branch, d the outcome of
\* _upload_douyin
UploadDouyin(d, platform) ==
    IF d.escaped THEN UploadError(d.st, platform, "NameError")
    ELSE IF d.success
    \* line 158 reads platform_video_info, unbound on this path
    THEN UploadError(Raised(d.st, platform, "UnboundLocalError"),
                     platform, "UnboundLocalError")
    ELSE [st |-> d.st, resp |-> UploadFailed("video upload failed")]

\* lines 156-164: the response built from the driver's verdict d
UploadOutcome(d, video_info) ==
    IF d.success
    THEN [st |-> d.st,
          resp |-> UploadResponse(TRUE, "video uploaded", video_info.title)]
    ELSE [st |-> d.st, resp |-> UploadFailed("video upload failed")]

\* lines 137-154: the other platforms, g the outcome of _get_uploader
UploadWith(g, platform, video_info, env) ==
    IF g.uploader = "raise" THEN UploadError(g.st, platform, "Error")
    ELSE IF g.uploader = "None"
    THEN [st |-> g.st, resp |-> UploadFailed("cannot create uploader")]
    ELSE IF ConvertVideoInfo(platform, video_info) = "raise"
    THEN UploadError(Raised(g.st, platform, "ValidationError"),
                     platform, "ValidationError")
    ELSE IF ConvertVideoInfo(platform, video_info) = "None"
    THEN [st |-> g.st, resp |-> UploadFailed("conversion failed")]
    ELSE UploadOutcome(DriverUpload(g.st, platform, video_info, env),
                       video_info)

\* upload_video: [st, resp]
PM_upload_video(st, request, env) ==
    IF ~HasAccount(st, request.platform, request.account_name)
    THEN [st |-> st, resp |-> UploadFailed("no such account")]
    ELSE IF ~LoggedIn(st.accounts[AccountKey(request.platform,
                                             request.account_name)])
    THEN [st |-> st, resp |-> UploadFailed("not logged in")]
    ELSE IF request.platform = "douyin"
    THEN UploadDouyin(PM_upload_douyin(st, AccountKey(request.platform,
                                                      request.account_name),
                                       request.video_info, env),
                      request.platform)
    ELSE UploadWith(PM_get_uploader(st, request.platform, env.start),
                    request.platform, request.video_info, env)

\* line 196: the overall flag of a batch
BatchSuccessAlways(success_count) == TRUE

BatchSuccess(success_count) == success_count > 0

\* the loop of lines 179-193: [st, results, success_count, escaped]; BatchItem
\* continues after the upload_video call of item i gave r
RECURSIVE PM_batch_loop(_, _, _, _, _, _)
RECURSIVE BatchItem(_, _, _, _, _, _)
BatchItem(r, i, request, envs, results, success_count) ==
    IF IsPropagated(r.resp)
    THEN [st |-> r.st, results |-> results, success_count |-> success_count,
          escaped |-> r.resp.propagated]
    ELSE PM_batch_loop(r.st, i + 1, request, envs, Append(results, r.resp),
                       IF r.resp.success THEN success_count + 1
                       ELSE success_count)

PM_batch_loop(st, i, request, envs, results, success_count) ==
    IF i > Len(request.video_list)
    THEN [st |-> st, results |-> results, success_count |-> success_count,
          escaped |-> "none"]
    ELSE BatchItem(PM_upload_video(
                       Logged(st, PmEvent("call", request.platform, "-",
                                          request.video_list[i])),
                       [account_name |-> request.account_name,
                        platform |-> request.platform,
                        video_info |-> request.video_list[i]],
                       envs[i]),
                   i, request, envs, results, success_count)

\* lines 194-211: the response after the loop
BatchOutcome(done, request) ==
    IF done.escaped = "none"
    THEN [st |-> done.st,
          resp |-> BatchUploadResponse(BatchSuccess(done.success_count),
                                       "batch finished",
                                       Len(request.video_list),
                                       done.success_count, done.results)]
    \* the handler of lines 203-211
    ELSE IF ExceptCatches(done.escaped)
    THEN [st |-> done.st,
          resp |-> BatchUploadResponse(FALSE, "batch error",
                                       Len(request.video_list), 0, <<>>)]
    ELSE [st |-> done.st, resp |-> Propagated(done.escaped)]

\* batch_upload: [st, resp]
PM_batch_upload(st, request, envs) ==
    BatchOutcome(PM_batch_loop(st, 1, request, envs, <<>>, 0), request)

\* close_all_uploaders: close_browser on every cached entry (a failure is
\* caught and logged), then the cache is cleared
PlatformOrder == <<"douyin", "wechat_channel", "xiaohongshu">>

\* what close_browser does on one cached entry: the placeholder None and a
\* DouyinUploader have no such method; a driver with a browser closes it,
\* which fails where the environment says so; one without does nothing
CloseOutcome(uploader, platform, fails) ==
    IF uploader.cls \in {"None", "DouyinUploader"} THEN "AttributeError"
    ELSE IF uploader.browser /\ platform \in fails THEN "Error"
    ELSE "ok"

\* the loop of lines 266-270: [log, escaped]
RECURSIVE CloseEach(_, _, _, _)
CloseEach(ups, i, log, fails) ==
    IF i > Len(PlatformOrder) THEN [log |-> log, escaped |-> "none"]
    ELSE IF PlatformOrder[i] \in DOMAIN ups
    THEN LET platform == PlatformOrder[i]
             outcome == CloseOutcome(ups[platform], platform, fails)
             attempted == Append(log, PmEvent("close_browser", platform,
                                              IF outcome = "ok" THEN "ok"
                                              ELSE "raise", NoVideo))
         IN  IF outcome = "ok" THEN CloseEach(ups, i + 1, attempted, fails)
             ELSE LET raised == Append(attempted,
                                       PmEvent("raise", platform, outcome, NoVideo))
                  IN  IF ExceptCatches(outcome)
                      THEN CloseEach(ups, i + 1, raised, fails)
                      ELSE [log |-> raised, escaped |-> outcome]
    ELSE CloseEach(ups, i + 1, log, fails)

ClearKeeps(ups) == ups

\* line 272: self.uploaders.clear()
Clear(ups) == [p \in {} |-> NoneDriver]

\* [st, escaped]
PM_close_all_uploaders(st, fails) ==
    LET closed == CloseEach(st.uploaders, 1, st.log, fails)
    IN  IF closed.escaped = "none"
        THEN [st |-> [st EXCEPT !.log = closed.log,
                                !.uploaders = Clear(@)],
              escaped |-> "none"]
        ELSE [st |-> [st EXCEPT !.log = closed.log], escaped |-> closed.escaped]

\* File names of the cookie directory.  A stem is a sequence of tokens, each
\* a piece of text without an underscore, or the underscore itself; a file
\* is [stem, suffix].
File(stem, suffix) == [stem |-> stem, suffix |-> suffix]

\* cookies_dir / file name
FilePath(f) == Some("cookies/" \o Join(f.stem) \o f.suffix)

\* cookies_dir.glob("*.json")
Glob(files) == {f \in files : f.suffix = ".json"}

\* self.supported_platforms, in list order, and each name as tokens
SupportedPlatformList == <<"douyin", "wechat_channel", "xiaohongshu">>

PlatformTokens(platform) ==
    IF platform = "wechat_channel" THEN <<"wechat", "_", "channel">>
    ELSE <<platform>>

StartsWithAnything(stem, prefix) == TRUE

\* filename.startswith(prefix)
StartsWith(stem, prefix) ==
    Len(stem) >= Len(prefix) /\ SubSeq(stem, 1, Len(prefix)) = prefix

\* lines 382-386: index of the first supported platform p with
\* filename.startswith(p + "_"), or 0
RECURSIVE MatchPlatform(_, _)
MatchPlatform(stem, i) ==
    IF i > Len(SupportedPlatformList) THEN 0
    ELSE IF StartsWith(stem, PlatformTokens(SupportedPlatformList[i]) \o <<"_">>)
    THEN i
    ELSE MatchPlatform(stem, i + 1)

\* lines 374-388: None, or Some(<<platform, account_name>>)
ParseStem(stem) ==
    IF \A k \in 1..Len(stem) : stem[k] # "_" THEN None
    ELSE LET i == MatchPlatform(stem, 1)
         IN  IF i = 0 THEN None
             ELSE LET platform == SupportedPlatformList[i]
                      prefix == PlatformTokens(platform) \o <<"_">>
                      account_name == Join(SubSeq(stem, Len(prefix) + 1, Len(stem)))
                  IN  IF account_name = "" THEN None
                      ELSE Some(<<platform, account_name>>)

\* _load_existing_accounts: one logged-in account per globbed cookie file
\* whose stem starts with a supported platform and an underscore and goes on
RECURSIVE LoadExistingAccounts(_, _)
LoadExistingAccounts(files, st) ==
    IF files = {} THEN st
    ELSE LET f == CHOOSE x \in files : TRUE
             rest == files \ {f}
             parsed == ParseStem(f.stem)
         IN  IF ~IsNone(parsed) /\ CanCreate(Get(parsed)[1])
             THEN LoadExistingAccounts(
                      rest,
                      PM_add_account(st, Account(Get(parsed)[1], Get(parsed)[2],
                                                 TRUE, FilePath(f))).st)
             ELSE LoadExistingAccounts(rest, st)

\* __init__ (lines 24-30) on a cookie directory [exists, files]
PM_init(cookies_dir) ==
    LET st == [accounts |-> [k \in {} |-> Account("-", "-", FALSE, None)],
               uploaders |-> [p \in {} |-> NoneDriver], log |-> <<>>]
    IN  IF ~cookies_dir.exists THEN st
        ELSE LoadExistingAccounts(Glob(cookies_dir.files), st)

(***************************************************************************)
(* Requests drawn for the platform manager.                                *)
(***************************************************************************)
MaxPmBatch == 2       \* longest video list of a manager batch request

PlatformInputs == supported_platforms \cup {"bilibili"}

Names == {"alice"}

CookieDirFiles == {File(<<"douyin", "_", "alice">>, ".json"),
                   File(<<"wechat", "_", "channel", "_", "alice">>, ".json"),
                   File(<<"unknown", "_", "carol">>, ".json")}

PmVideos == {[video_path |-> "a.mp4", title |-> "T", tags |-> <<>>],
             [video_path |-> "b.mp4", title |-> NoTitle, tags |-> <<>>]}

LoginEnvs == [start : {"ok", "raise"}, cookies_ok : {TRUE}, verify : BOOLEAN,
              scan : BOOLEAN, save_ok : {TRUE}]

UploadEnvs == [start : {"ok", "raise"}, verify : BOOLEAN,
               outcome : {"early_false", "publish_true", "publish_false"},
               save_ok : {TRUE}]

BatchEnvs == {e \in UploadEnvs :
                 e.save_ok /\ e.verify /\ e.outcome # "early_false"
                    /\ e.start = "ok"}

EmptyRegistry == [k \in {} |-> Account("-", "-", FALSE, None)]
EmptyCache == [p \in {} |-> NoneDriver]

PmState == [accounts |-> accounts, uploaders |-> uploaders, log |-> <<>>]

PmRequest(op, platform, name, video_list) ==
    [op |-> op, platform |-> platform, account_name |-> name,
     video_list |-> video_list]

PmIdleReq == PmRequest("none", "-", "-", <<>>)

\* what an operation without a response object leaves in pmResp
PmReturned == [success |-> TRUE, message |-> "returned"]

\* The environment of a call is drawn only where the call consults it: a
\* field the call never reads keeps its default value.
Ready(platform, name) ==
    /\ AccountKey(platform, name) \in DOMAIN accounts
    /\ accounts[AccountKey(platform, name)].is_logged_in

BrowserStarted(platform) ==
    platform \in DOMAIN uploaders /\ uploaders[platform].browser

DriverLoggedIn(platform) ==
    platform \in DOMAIN uploaders /\ uploaders[platform].is_logged_in

DefaultLoginEnv == [start |-> "ok", cookies_ok |-> TRUE, verify |-> FALSE,
                    scan |-> FALSE, save_ok |-> TRUE]

DefaultUploadEnv == [start |-> "ok", verify |-> TRUE,
                     outcome |-> "publish_false", save_ok |-> TRUE]

LoginEnvConsulted(env, platform) ==
    IF platform \notin supported_platforms THEN env = DefaultLoginEnv
    ELSE IF platform = "douyin"
    THEN env = [DefaultLoginEnv EXCEPT !.scan = env.scan]
    ELSE /\ BrowserStarted(platform) => env.start = "ok"
         /\ env.start = "raise" => env = [DefaultLoginEnv EXCEPT !.start = "raise"]
         /\ env.verify => ~env.scan
         /\ ~env.scan => env.save_ok

UploadEnvConsulted(env, platform, name) ==
    IF ~Ready(platform, name) THEN env = DefaultUploadEnv
    ELSE IF platform = "douyin"
    THEN env = [DefaultUploadEnv EXCEPT !.outcome = env.outcome]
         /\ env.outcome # "early_false"
    ELSE /\ BrowserStarted(platform) => env.start = "ok"
         /\ env.start = "raise" => env = [DefaultUploadEnv EXCEPT !.start = "raise"]
         /\ DriverLoggedIn(platform) => env.verify
         /\ ~env.verify => env = [DefaultUploadEnv EXCEPT !.verify = FALSE]
         /\ env.outcome = "early_false" \/ platform # "wechat_channel"
               => env.save_ok

InitPM ==
    /\ \E files \in SUBSET CookieDirFiles :
         accounts = PM_init([exists |-> TRUE, files |-> files]).accounts
    /\ uploaders = EmptyCache
    /\ pmReq = PmIdleReq
    /\ pmResp = DsIdleResp
    /\ pmLog = <<>>

\* the state and response r = [st, resp] of an operation become current
PmApply(r, req) ==
    /\ pmReq' = req
    /\ pmResp' = r.resp
    /\ accounts' = r.st.accounts
    /\ uploaders' = r.st.uploaders
    /\ pmLog' = r.st.log

PmLogin ==
    \E platform \in PlatformInputs, name \in Names, env \in LoginEnvs :
        /\ LoginEnvConsulted(env, platform)
        /\ PmApply(PM_login(PmState, platform, name, env),
                   PmRequest("login", platform, name, <<>>))

PmUploadVideo ==
    \E platform \in PlatformInputs, name \in Names, video_info \in PmVideos,
       env \in UploadEnvs :
        /\ UploadEnvConsulted(env, platform, name)
        /\ PmApply(PM_upload_video(PmState,
                                   [platform |-> platform,
                                    account_name |-> name,
                                    video_info |-> video_info],
                                   env),
                   PmRequest("upload_video", platform, name, <<video_info>>))

PmBatchUpload ==
    \E platform \in PlatformInputs, name \in Names,
       video_list \in {v \in SeqsUpTo(PmVideos, MaxPmBatch) :
                          \A i, j \in 1..Len(v) : i # j => v[i] # v[j]} :
        \E envs \in [1..Len(video_list) -> BatchEnvs] :
            /\ ~Ready(platform, name)
                 => \A i \in 1..Len(video_list) : envs[i] = DefaultUploadEnv
            /\ PmApply(PM_batch_upload(PmState,
                                       [platform |-> platform,
                                        account_name |-> name,
                                        video_list |-> video_list],
                                       envs),
                       PmRequest("batch_upload", platform, name, video_list))

\* the platforms whose browser fails to close are drawn among those that
\* have one
PmCloseAll ==
    \E fails \in SUBSET {p \in DOMAIN uploaders : uploaders[p].browser} :
        LET r == PM_close_all_uploaders(PmState, fails)
        IN  /\ pmReq' = PmRequest("close_all_uploaders", "-", "-", <<>>)
            /\ pmResp' = IF r.escaped = "none" THEN PmReturned
                         ELSE Propagated(r.escaped)
            /\ accounts' = r.st.accounts
            /\ uploaders' = r.st.uploaders
            /\ pmLog' = r.st.log

PmAddAccount ==
    \E platform \in PlatformInputs, name \in Names, is_logged_in \in BOOLEAN :
        LET r == PM_add_account(PmState, Account(platform, name, is_logged_in, None))
        IN  /\ pmReq' = PmRequest("add_account", platform, name, <<>>)
            /\ pmResp' = [success |-> r.ok, message |-> "add_account"]
            /\ accounts' = r.st.accounts
            /\ uploaders' = r.st.uploaders
            /\ pmLog' = r.st.log

(***************************************************************************)
(* Two accounts of one platform on the manager's shared driver: the        *)
(* operations of PlatformManager above, requested for either account.      *)
(***************************************************************************)
SharedNames == {"alice", "bob"}

SharedCookieFiles ==
    {File(<<"wechat", "_", "channel", "_", "alice">>, ".json"),
     File(<<"wechat", "_", "channel", "_", "bob">>, ".json")}

InitShared ==
    /\ \E files \in SUBSET SharedCookieFiles :
         accounts = PM_init([exists |-> TRUE, files |-> files]).accounts
    /\ uploaders = EmptyCache
    /\ pmReq = PmIdleReq
    /\ pmResp = DsIdleResp
    /\ pmLog = <<>>

ShLogin ==
    \E name \in SharedNames, env \in LoginEnvs :
        /\ LoginEnvConsulted(env, "wechat_channel")
        /\ PmApply(PM_login(PmState, "wechat_channel", name, env),
                   PmRequest("login", "wechat_channel", name, <<>>))

ShUploadVideo ==
    \E name \in SharedNames, video_info \in PmVideos, env \in UploadEnvs :
        /\ UploadEnvConsulted(env, "wechat_channel", name)
        /\ PmApply(PM_upload_video(PmState,
                                   [platform |-> "wechat_channel",
                                    account_name |-> name,
                                    video_info |-> video_info],
                                   env),
                   PmRequest("upload_video", "wechat_channel", name,
                             <<video_info>>))

(***************************************************************************)
(* Construction of a BatchUploadConfig from drawn field values.            *)
(***************************************************************************)
ConfigHours == Hours \cup {0 - 1, 0, 23}

ConfigInputs ==
    [videos_per_day : (0 - 1)..2,
     daily_times : SeqsUpTo(ConfigHours, MaxTimes + 1),
     start_days : {0 - 1, 0}]

InitConfig ==
    /\ schedIn \in ConfigInputs
    /\ schedOut = Pending

\* BatchUploadConfig(**fields): the validated model, or pydantic's
\* ValidationError (a ValueError)
ConstructConfig ==
    /\ schedOut = Pending
    /\ LET config == BatchUploadConfig(schedIn.videos_per_day,
                                       schedIn.daily_times, schedIn.start_days)
       IN  schedOut' = IF config.ok THEN [raised |-> "none", config |-> config]
                       ELSE [raised |-> "ValueError"]
    /\ UNCHANGED schedIn

(***************************************************************************)
(* Construction of a manager on a drawn cookie directory.                  *)
(***************************************************************************)
DiscoveryFiles ==
    {File(<<"douyin", "_", "alice">>, ".json"),
     File(<<"wechat", "_", "channel", "_", "bob">>, ".json"),
     File(<<"xiaohongshu", "_", "a", "_", "b">>, ".json"),
     File(<<"douyin", "_">>, ".json"),
     File(<<"unknown", "_", "carol">>, ".json"),
     File(<<"wechat", "_", "bob">>, ".json"),
     File(<<"x", "_", "douyin", "_", "alice">>, ".json"),
     File(<<"douyinalice">>, ".json"),
     File(<<"xiaohongshu", "_", "dora">>, ".txt")}

CookieDirs == {[exists |-> FALSE, files |-> {}]}
              \cup {[exists |-> TRUE, files |-> fs] : fs \in SUBSET DiscoveryFiles}

InitDiscovery ==
    /\ \E cookies_dir \in CookieDirs :
         pmReq = [op |-> "construct", cookies_dir |-> cookies_dir]
    /\ accounts = EmptyRegistry
    /\ uploaders = EmptyCache
    /\ pmResp = DsIdleResp
    /\ pmLog = <<>>

PmConstruct ==
    /\ pmReq.op = "construct"
    /\ pmResp = DsIdleResp
    /\ LET st == PM_init(pmReq.cookies_dir)
       IN  /\ accounts' = st.accounts
           /\ uploaders' = st.uploaders
           /\ pmLog' = st.log
    /\ pmResp' = PmReturned
    /\ UNCHANGED pmReq

(***************************************************************************)
(* ConfigService (services/config_service.py) and the validated Config     *)
(* model (models/config.py).                                               *)
(*                                                                         *)
(* config_file is the content of the service's file: Absent, Invalid (not  *)
(* a JSON object) or a JSON object, modelled as the keyword arguments it   *)
(* gives to Config.  cached_config is self._config.                        *)
(***************************************************************************)
Missing == "<missing>"

Absent == [kind |-> "absent"]
Invalid == [kind |-> "invalid"]
Json(data) == [kind |-> "json", data |-> data]

DefaultChromePath == "/usr/bin/google-chrome"

\* A path text is a sequence of segments; pathlib.Path drops the "."
\* segments, so Path("./cookies") is Path("cookies"), and str() of a Path
\* gives the segments that are left.
Path(text) == [parts |-> SelectSeq(text, LAMBDA seg : seg # ".")]

str(path) == path.parts

DefaultCookiesDir == Path(<<".", "cookies">>)
DefaultLogsDir == Path(<<".", "logs">>)
DefaultVideosDir == Path(<<".", "videos">>)

\* the keyword arguments of Config(); a chrome_path that is not given is
\* Missing, a directory is None or Some(text)
NoArgs == [chrome_path |-> Missing, cookies_dir |-> None,
           logs_dir |-> None, videos_dir |-> None]

\* a required field must be given; its validator runs only on a given value
RequiredGiven(v) == v # Missing

\* set_default_chrome_path, run on a value that was given
set_default_chrome_path(v) ==
    IF v # "" /\ v # Missing THEN v ELSE DefaultChromePath

\* a directory field: its default, or the Path of the text that was given
DirField(v, default) == IF IsNone(v) THEN default ELSE Path(Get(v))

\* Config(**data): [raised, config]
Config(data) ==
    IF ~RequiredGiven(data.chrome_path)
    THEN [raised |-> "ValidationError", config |-> None]
    ELSE [raised |-> "none",
          config |-> Some([chrome_path |-> set_default_chrome_path(data.chrome_path),
                           cookies_dir |-> DirField(data.cookies_dir, DefaultCookiesDir),
                           logs_dir |-> DirField(data.logs_dir, DefaultLogsDir),
                           videos_dir |-> DirField(data.videos_dir, DefaultVideosDir)])]

\* a dump that leaves the directories out
model_dump_chrome_only(config) ==
    [chrome_path |-> config.chrome_path, cookies_dir |-> None,
     logs_dir |-> None, videos_dir |-> None]

\* config.model_dump(mode='json'): every Path becomes its str()
model_dump(config) ==
    [chrome_path |-> config.chrome_path,
     cookies_dir |-> Some(str(config.cookies_dir)),
     logs_dir |-> Some(str(config.logs_dir)),
     videos_dir |-> Some(str(config.videos_dir))]

CfgResponse(op, outcome, value, file_before, cached_before) ==
    [op |-> op, outcome |-> outcome, value |-> value,
     file_before |-> file_before, cached_before |-> cached_before]

CfgIdleResp == CfgResponse("none", "none", None, Absent, None)

\* what the write of lines 76-87 does: it completes, it raises before the
\* file is opened for writing (mkdir or open fails), or it raises after
\* open(..., 'w') has emptied the file
WriteOutcomes == {"ok", "refused", "truncated"}

\* self._config after save_config if it were assigned before the write
CacheAssignedFirst(cached_config_before, config, write) == Some(config)

\* self._config after save_config: line 89 follows the write inside the try
CacheAfterSave(cached_config_before, config, write) ==
    IF write = "ok" THEN Some(config) ELSE cached_config_before

\* save_config; st is [config_file, cached_config, log]
CS_save_config(st, config, write) ==
    IF write = "ok"
    THEN [st |-> [config_file |-> Json(model_dump(config)),
                  cached_config |-> CacheAfterSave(st.cached_config, config,
                                                   write),
                  log |-> Append(st.log, "write")],
          raised |-> "none"]
    ELSE [st |-> [config_file |-> IF write = "truncated" THEN Invalid
                                  ELSE st.config_file,
                  cached_config |-> CacheAfterSave(st.cached_config, config,
                                                   write),
                  log |-> Append(st.log, "write failed")],
          raised |-> "OSError"]

\* load_config: [st, outcome, value]
CS_load_config(st, write) ==
    IF st.cached_config # None
    THEN [st |-> st, outcome |-> "returned", value |-> st.cached_config]
    ELSE IF st.config_file # Absent
    THEN LET read == [st EXCEPT !.log = Append(@, "read")]
             parsed == IF st.config_file = Invalid
                       THEN [raised |-> "JSONDecodeError", config |-> None]
                       ELSE Config(st.config_file.data)
             default == Config(NoArgs)
         IN  IF parsed.raised = "none"
             THEN [st |-> [read EXCEPT !.cached_config = parsed.config],
                   outcome |-> "returned", value |-> parsed.config]
             ELSE IF default.raised = "none"
             THEN [st |-> [read EXCEPT !.cached_config = default.config],
                   outcome |-> "returned", value |-> default.config]
             ELSE [st |-> read, outcome |-> default.raised, value |-> None]
    ELSE LET default == Config(NoArgs)
         IN  IF default.raised # "none"
             THEN [st |-> st, outcome |-> default.raised, value |-> None]
             ELSE LET cached == [st EXCEPT !.cached_config = default.config]
                      saved == CS_save_config(cached, Get(default.config),
                                              write)
                  IN  IF saved.raised = "none"
                      THEN [st |-> saved.st, outcome |-> "returned",
                            value |-> default.config]
                      ELSE [st |-> saved.st, outcome |-> saved.raised,
                            value |-> None]

(***************************************************************************)
(* Operations drawn for the configuration service.                         *)
(***************************************************************************)
MaxCfgLog == 3        \* longest log of file accesses and edits of one run

ConfigArgs == [chrome_path : {Missing, "", "/test/chrome"},
               cookies_dir : {None, Some(<<".", "cookies">>),
                              Some(<<"/tmp", "cookies">>)},
               logs_dir : {None, Some(<<"/tmp", "logs">>)},
               videos_dir : {None, Some(<<".", "v">>)}]

ConfigFiles == {Absent, Invalid} \cup {Json(data) : data \in ConfigArgs}

\* the configurations a caller can hold
Configs == {Get(Config(data).config) :
              data \in {d \in ConfigArgs : Config(d).raised = "none"}}

CfgState == [config_file |-> config_file, cached_config |-> cached_config,
             log |-> cfgLog]

InitCfgService ==
    /\ config_file \in ConfigFiles
    /\ cached_config = None
    /\ cfgResp = CfgIdleResp
    /\ cfgLog = <<>>

CfgApply(st) ==
    /\ config_file' = st.config_file
    /\ cached_config' = st.cached_config
    /\ cfgLog' = st.log

CsLoadConfig ==
    /\ Len(cfgLog) < MaxCfgLog
    /\ \E write \in WriteOutcomes :
         LET r == CS_load_config(CfgState, write)
         IN  /\ CfgApply(r.st)
             /\ cfgResp' = CfgResponse("load_config", r.outcome, r.value,
                                       config_file, cached_config)

CsSaveConfig ==
    /\ Len(cfgLog) < MaxCfgLog
    /\ \E config \in Configs, write \in WriteOutcomes :
         LET r == CS_save_config(CfgState, config, write)
         IN  /\ CfgApply(r.st)
             /\ cfgResp' = CfgResponse("save_config",
                                       IF r.raised = "none" THEN "returned"
                                       ELSE r.raised,
                                       None, config_file, cached_config)

\* ConfigService(config_file) is constructed anew over the same file
CsInit ==
    /\ Len(cfgLog) < MaxCfgLog
    /\ cached_config' = None
    /\ cfgLog' = Append(cfgLog, "init")
    /\ cfgResp' = CfgResponse("init", "returned", None, config_file,
                              cached_config)
    /\ UNCHANGED config_file

\* somebody else rewrites or removes the file
CsFileEdited ==
    /\ Len(cfgLog) < MaxCfgLog
    /\ \E f \in ConfigFiles \ {config_file} :
         /\ config_file' = f
         /\ cfgLog' = Append(cfgLog, "edit")
    /\ cfgResp' = CfgResponse("edit", "returned", None, config_file,
                              cached_config)
    /\ UNCHANGED cached_config

(***************************************************************************)
(* The HTTP router (api/routes.py).  A request that passed schema          *)
(* validation reaches its handler; app_config is app.state.config (None    *)
(* until the startup hook has stored it).  A handler gives [status, log],  *)
(* where log lists the DouyinService construction, the service call and    *)
(* the file write it made.                                                 *)
(***************************************************************************)
Http(status, log) == [status |-> status, log |-> log]

ConfigMissingNever(app_config) == FALSE

\* `if not config`
ConfigMissing(app_config) == app_config = None

\* get_douyin_service: [raised, log]
get_douyin_service(app_config) ==
    IF ConfigMissing(app_config)
    THEN [raised |-> Some(500), log |-> <<>>]
    ELSE [raised |-> None, log |-> <<"DouyinService">>]

ServiceEndpoints == {"login", "upload_video", "batch_upload",
                     "check_account_status"}

\* login / upload_video / batch_upload_videos / check_account_status: any
\* exception, the HTTPException of get_douyin_service included, becomes a
\* new HTTPException with status 500
ServiceEndpoint(name, app_config, outcome) ==
    IF get_douyin_service(app_config).raised # None
    THEN Http(500, get_douyin_service(app_config).log)
    ELSE IF outcome = "raises"
    THEN Http(500, Append(get_douyin_service(app_config).log, name))
    ELSE Http(200, Append(get_douyin_service(app_config).log, name))

\* get_config
get_config(app_config) ==
    IF ConfigMissing(app_config) THEN Http(500, <<>>) ELSE Http(200, <<>>)

VideoExtensions == {".mp4", ".avi", ".mov", ".mkv", ".flv", ".wmv", ".m4v"}
ThumbnailExtensions == {".png", ".jpg", ".jpeg"}

\* str.lower() on the suffixes that are drawn
lower(suffix) == IF suffix = ".MP4" THEN ".mp4" ELSE suffix

\* upload_file: an HTTPException keeps its status, any other exception
\* becomes status 500
upload_file(app_config, file_type, suffix, write_ok) ==
    IF ConfigMissing(app_config) THEN Http(500, <<>>)
    ELSE IF file_type \notin {"video", "thumbnail"} THEN Http(400, <<>>)
    ELSE IF lower(suffix) \notin (IF file_type = "video" THEN VideoExtensions
                                  ELSE ThumbnailExtensions)
    THEN Http(400, <<>>)
    ELSE IF ~write_ok THEN Http(500, <<"open failed">>)
    ELSE Http(200, <<"file.write">>)

AppConfigs == {None, Some("config")}

ApiRequests ==
    {[op |-> "api", endpoint |-> name, app_config |-> c, outcome |-> o,
      account_name |-> a] :
        name \in ServiceEndpoints, c \in AppConfigs,
        o \in {"returns", "raises"}, a \in {"a1", "a2"}}
    \cup {[op |-> "api", endpoint |-> "get_config", app_config |-> c] :
            c \in AppConfigs}
    \cup {[op |-> "api", endpoint |-> "upload_file", app_config |-> c,
           file_type |-> t, suffix |-> x, write_ok |-> w] :
            c \in AppConfigs, t \in {"video", "thumbnail", "audio"},
            x \in {".mp4", ".MP4", ".png", ".txt"}, w \in BOOLEAN}

ApiIdleResp == [status |-> 0]

InitApi ==
    /\ dsReq \in ApiRequests
    /\ dsResp = ApiIdleResp
    /\ dsLog = <<>>

ApiRespond(r) ==
    /\ dsResp' = [status |-> r.status]
    /\ dsLog' = r.log
    /\ UNCHANGED dsReq

ApiServiceEndpoint ==
    /\ dsResp = ApiIdleResp
    /\ dsReq.endpoint \in ServiceEndpoints
    /\ ApiRespond(ServiceEndpoint(dsReq.endpoint, dsReq.app_config,
                                  dsReq.outcome))

ApiGetConfig ==
    /\ dsResp = ApiIdleResp
    /\ dsReq.endpoint = "get_config"
    /\ ApiRespond(get_config(dsReq.app_config))

ApiUploadFile ==
    /\ dsResp = ApiIdleResp
    /\ dsReq.endpoint = "upload_file"
    /\ ApiRespond(upload_file(dsReq.app_config, dsReq.file_type,
                              dsReq.suffix, dsReq.write_ok))

(***************************************************************************)
(* Calls of get_title_and_hashtags over drawn files: a video clip.mp4 or   *)
(* clip.mov, and next to it no clip.txt, a clip.txt that cannot be read,   *)
(* or a clip.txt with a drawn text.                                        *)
(***************************************************************************)
MaxText == 5          \* longest sidecar text drawn

SidecarChars == {"T", "a", "#", " ", "\n"}

SidecarTexts == UNION {[1..k -> SidecarChars] : k \in 0..MaxText}

NoFile == [readable |-> FALSE, text |-> <<>>, exists |-> FALSE]

Sidecars == {NoFile, TextFile(FALSE, <<>>)}
            \cup {TextFile(TRUE, text) : text \in SidecarTexts}

\* the bytes of the video decode as text or do not
VideoFiles == {Binary, TextFile(TRUE, <<"T">>)}

FilesOf(filename, video, sidecar) ==
    IF sidecar = NoFile THEN (filename :> video)
    ELSE (filename :> video) @@ (VideoPath(filename.stem, ".txt") :> sidecar)

InitSidecar ==
    /\ \E suffix \in {".mp4", ".mov"}, video \in VideoFiles,
          sidecar \in Sidecars :
         dsReq = [op |-> "get_title_and_hashtags",
                  filename |-> VideoPath("clip", suffix),
                  video |-> video, sidecar |-> sidecar]
    /\ dsResp = DsIdleResp
    /\ dsLog = <<>>

GetTitleAndHashtags ==
    /\ dsReq.op = "get_title_and_hashtags"
    /\ dsResp = DsIdleResp
    /\ dsResp' = get_title_and_hashtags(
                     FilesOf(dsReq.filename, dsReq.video, dsReq.sidecar),
                     dsReq.filename)
    /\ UNCHANGED <<dsReq, dsLog>>

(***************************************************************************)
(* One upload of the Douyin drivers, step by step: v1 is                   *)
(* core/douyin_uploader.py (_upload_video_impl from its try block on), v2  *)
(* is core/douyin_uploader_v2.py (upload_video).  up is the driver's side: *)
(* its position pc, the steps it has finished (log) and what it counted in *)
(* the loop it is in; page is the platform's side.  The three wait loops   *)
(* have no bound in the code; attempts, seen_failed and resubmits stop     *)
(* counting at MaxAttempts.                                                *)
(***************************************************************************)
MaxAttempts == 2      \* loop iterations that are counted
MaxFailures == 1      \* times the platform shows the upload-failed indicator

UploadUrl == "creator-micro/content/upload"
PublishUrls == {"content/publish?enter_from=publish_page",
                "content/post/video?enter_from=publish_page"}
ManageUrl == "creator-micro/content/manage"

ClipPath == "clip.mp4"

\* the attributes a v2 DouyinUploader has (set by __init__)
V2Attributes == {"headless", "browser", "page", "is_logged_in",
                 "current_account"}

\* the fields of DouyinVideoInfo (BaseVideoInfo and its own)
DouyinVideoInfoFields == {"video_path", "title", "tags", "thumbnail_path",
                          "location", "privacy", "allow_comment",
                          "allow_duet", "allow_stitch"}

\* reading obj.name raises AttributeError when the object has no such name
HasAttribute(names, name) == name \in names

Count(n) == IF n < MaxAttempts THEN n + 1 ELSE n

UpEvent(ev, ret) == [ev |-> ev, ret |-> ret]

UpReturn(st, result) == [st EXCEPT !.pc = "returned", !.result = result]

PublishPageAnyUrl(url) == TRUE

\* wait_for_url on the two publish-page URLs
PublishPageReached(url) == url \in PublishUrls

\* upload_video (v2) up to the file selection; _upload_video_impl 162-169
UP_begin(st, pg) ==
    IF st.version = "v2" /\ ~st.logged_in
    THEN [up |-> UpReturn(st, "false"), page |-> pg]
    ELSE [up |-> [st EXCEPT !.pc = "wait_publish_page",
                            !.log = @ \o <<UpEvent("goto", "ok"),
                                           UpEvent("set_input_files",
                                                   ClipPath)>>],
          page |-> [pg EXCEPT !.url = UploadUrl,
                              !.selected = Some(ClipPath)]]

\* one turn of _wait_for_publish_page, and _fill_title_and_tags /
\* _fill_video_info after it
UP_wait_for_publish_page(st, pg) ==
    IF PublishPageReached(pg.url)
    THEN [st EXCEPT !.pc = "wait_upload", !.attempts = 0,
                    !.log = @ \o <<UpEvent("_wait_for_publish_page", pg.url),
                                   UpEvent("fill", "ok")>>]
    ELSE [st EXCEPT !.attempts = Count(@)]

\* the file given to the retry input: video_path (v1), or
\* self.current_video_path (v2), which raises when the driver has no such
\* attribute; the loop's bare except goes on polling
RetryFile(st) ==
    IF st.version = "v1" THEN Some(ClipPath)
    ELSE IF HasAttribute(V2Attributes, "current_video_path")
    THEN Some(ClipPath)
    ELSE None

\* one turn of _wait_for_upload_complete (v1) / _wait_video_upload (v2)
UP_wait_for_upload_complete(st, pg) ==
    IF pg.reupload
    THEN [up |-> [st EXCEPT !.pc = "steps", !.attempts = 0,
                            !.log = Append(@, UpEvent("wait_upload",
                                                      "reupload"))],
          page |-> pg]
    ELSE IF pg.failed
    THEN IF RetryFile(st) # None
         THEN [up |-> [st EXCEPT !.seen_failed = Count(@),
                                 !.resubmits = Count(@)],
               page |-> [pg EXCEPT !.retry_file = RetryFile(st)]]
         ELSE [up |-> [st EXCEPT !.seen_failed = Count(@)], page |-> pg]
    ELSE [up |-> [st EXCEPT !.attempts = Count(@)], page |-> pg]

\* thumbnail, location and third-party sync, each of which keeps its
\* failures to itself
OptionalSteps(st) ==
    (IF st.thumbnail THEN <<UpEvent("_set_thumbnail", "ok")>> ELSE <<>>)
    \o <<UpEvent("_set_location", "ok"),
         UpEvent("_set_third_party_sync", "ok")>>

\* the steps between the upload wait and the publish loop; v1 tests its
\* publish_date argument, v2 reads video_info.schedule_time
UP_steps(st) ==
    IF st.version = "v2" /\ ~HasAttribute(DouyinVideoInfoFields, "schedule_time")
    THEN UpReturn([st EXCEPT !.log = @ \o OptionalSteps(st)
                                       \o <<UpEvent("schedule_time",
                                                    "AttributeError")>>],
                  "false")
    ELSE [st EXCEPT !.pc = "publish",
                    !.log = @ \o OptionalSteps(st)
                              \o (IF st.schedule
                                  THEN <<UpEvent("_set_schedule_time", "ok")>>
                                  ELSE <<>>)]

\* _publish_video: the click of one turn
UP_publish_click(st, pg) ==
    [up |-> [st EXCEPT !.pc = "publish_wait"],
     page |-> [pg EXCEPT !.clicked = TRUE]]

\* _publish_video: the wait_for_url of one turn and what follows it; v1
\* takes a screenshot after a turn that failed, and returns to write the
\* cookie file (198); v2 saves the cookies inside the loop (443)
UP_publish_wait(st, pg) ==
    IF pg.url = ManageUrl
    THEN UpReturn([st EXCEPT !.cookie_saved = TRUE,
                             !.log = @ \o <<UpEvent("_publish_video", pg.url),
                                            UpEvent("save_cookies", "ok")>>],
                  "true")
    ELSE IF st.version = "v1" /\ st.screenshot_raises
    THEN UpReturn([st EXCEPT !.log = Append(@, UpEvent("_publish_video",
                                                       "raise"))],
                  "false")
    ELSE [st EXCEPT !.pc = "publish", !.attempts = Count(@)]

(***************************************************************************)
(* The upload calls drawn, the driver's steps and the platform's steps.    *)
(***************************************************************************)
UpIdle == [pc |-> "idle"]
PageIdle == [url |-> "about:blank"]

UpRequests ==
    {[version |-> v, logged_in |-> l, thumbnail |-> t, schedule |-> s,
      screenshot_raises |-> x, pc |-> "start", log |-> <<>>, attempts |-> 0,
      seen_failed |-> 0, resubmits |-> 0, result |-> "none",
      cookie_saved |-> FALSE] :
        v \in {"v1", "v2"}, l \in BOOLEAN, t \in BOOLEAN, s \in BOOLEAN,
        x \in BOOLEAN}

InitUpload ==
    /\ up \in {r \in UpRequests :
                 /\ (r.version = "v1" => r.logged_in)
                 /\ (r.version = "v2" => ~r.screenshot_raises)}
    /\ page = [url |-> "about:blank", selected |-> None, reupload |-> FALSE,
               failed |-> FALSE, failures |-> 0, retry_file |-> None,
               clicked |-> FALSE]

UpBegin ==
    /\ up.pc = "start"
    /\ up' = UP_begin(up, page).up
    /\ page' = UP_begin(up, page).page

UpWaitForPublishPage ==
    /\ up.pc = "wait_publish_page"
    /\ up' = UP_wait_for_publish_page(up, page)
    /\ UNCHANGED page

UpWaitForUploadComplete ==
    /\ up.pc = "wait_upload"
    /\ up' = UP_wait_for_upload_complete(up, page).up
    /\ page' = UP_wait_for_upload_complete(up, page).page

UpSteps ==
    /\ up.pc = "steps"
    /\ up' = UP_steps(up)
    /\ UNCHANGED page

UpPublishClick ==
    /\ up.pc = "publish"
    /\ up' = UP_publish_click(up, page).up
    /\ page' = UP_publish_click(up, page).page

UpPublishWait ==
    /\ up.pc = "publish_wait"
    /\ up' = UP_publish_wait(up, page)
    /\ UNCHANGED page

\* the platform opens one of its two publish pages for the chosen file
PageEntersPublish ==
    /\ up.pc # "idle"
    /\ page.selected # None
    /\ page.url = UploadUrl
    /\ \E url \in PublishUrls : page' = [page EXCEPT !.url = url]
    /\ UNCHANGED up

\* the transfer of the file ends and the re-upload control appears
PageUploadDone ==
    /\ up.pc # "idle"
    /\ page.selected # None
    /\ ~page.reupload
    /\ ~page.failed
    /\ page' = [page EXCEPT !.reupload = TRUE]
    /\ UNCHANGED up

\* the transfer fails and the upload-failed indicator appears
PageUploadFails ==
    /\ up.pc # "idle"
    /\ page.selected # None
    /\ ~page.reupload
    /\ ~page.failed
    /\ page.failures < MaxFailures
    /\ page' = [page EXCEPT !.failed = TRUE, !.failures = @ + 1]
    /\ UNCHANGED up

\* the platform starts over with the file given to the retry input
PageRetryStarts ==
    /\ up.pc # "idle"
    /\ page.failed
    /\ page.retry_file # None
    /\ page' = [page EXCEPT !.failed = FALSE, !.retry_file = None]
    /\ UNCHANGED up

\* the platform accepts the post and shows the content-management page
PagePublished ==
    /\ up.pc # "idle"
    /\ page.clicked
    /\ page.url \in PublishUrls
    /\ page' = [page EXCEPT !.url = ManageUrl]
    /\ UNCHANGED up

(***************************************************************************)
(* The scan-login drivers: WechatChannelUploader                           *)
(* (core/wechat_channel_uploader.py) and XiaohongshuUploader               *)
(* (core/xiaohongshu_uploader.py).  A call is drawn with the driver's      *)
(* fields before it, the account's cookie file, and the outcomes of the    *)
(* browser calls it makes.  Every helper wraps its own body in             *)
(* try/except, so only the bare page calls of login and upload_video can   *)
(* raise into their handlers.                                              *)
(***************************************************************************)
MaxPublishTurns == 3

ScanPlatforms == {"wechat_channel", "xiaohongshu"}

ScanAccount == Some("main")

Bool(b) == IF b THEN "true" ELSE "false"

RaiseOr(env, step, ret) == IF env.raise_at = step THEN "raise" ELSE ret

\* __init__ leaves is_logged_in False and current_account None
ScanDriver(is_logged_in, current_account) ==
    [is_logged_in |-> is_logged_in, current_account |-> current_account]

\* what a call leaves behind: its return value, the driver's fields, the
\* account's cookie file and the events in order
ScResult(ret, self, cookie, log) ==
    [ret |-> ret, self |-> self, cookie |-> cookie, log |-> log]

\* _load_cookies: true only when the file exists and could be added
SC_load_cookies(cookie, env) == cookie # None /\ env.loads

\* _save_cookies: the whole body is inside try/except, a failure (no
\* account to name the file after, or a write that fails) is only logged
SC_save_cookies(log, cookie, account, env) ==
    LET written == ~IsNone(account) /\ ~env.save_fails
    IN  [cookie |-> IF written THEN Some("fresh") ELSE cookie,
         log |-> Append(log, DuEvent("_save_cookies",
                                     IF written THEN "ok" ELSE "failed"))]

\* a scan branch that does not look at the outcome of the wait
SC_scan_login_unchecked(self, account, cookie, env, log) ==
    LET asked == Append(log, DuEvent("_need_scan_login", Bool(env.need_scan)))
        waited == Append(asked, DuEvent("_wait_for_login_success",
                                        Bool(env.scanned)))
        saved == SC_save_cookies(waited, cookie, account, env)
    IN  IF ~env.need_scan THEN ScResult(FALSE, self, cookie, asked)
        ELSE ScResult(TRUE, [self EXCEPT !.is_logged_in = TRUE],
                      saved.cookie, saved.log)

\* the scan branch of login: _need_scan_login, _wait_for_login_success,
\* then _save_cookies and is_logged_in = True
SC_scan_login(self, account, cookie, env, log) ==
    LET asked == Append(log, DuEvent("_need_scan_login", Bool(env.need_scan)))
        waited == Append(asked, DuEvent("_wait_for_login_success",
                                        Bool(env.scanned)))
        saved == SC_save_cookies(waited, cookie, account, env)
    IN  IF ~env.need_scan THEN ScResult(FALSE, self, cookie, asked)
        ELSE IF ~env.scanned THEN ScResult(FALSE, self, cookie, waited)
        ELSE ScResult(TRUE, [self EXCEPT !.is_logged_in = TRUE],
                      saved.cookie, saved.log)

\* WechatChannelUploader.login: the stored cookies are loaded when there
\* are any, and the session is verified either way
WC_login(self, account, cookie, env) ==
    LET me == [self EXCEPT !.current_account = account]
        loaded == <<DuEvent("_load_cookies",
                            Bool(SC_load_cookies(cookie, env)))>>
        gone == Append(loaded, DuEvent("goto", RaiseOr(env, "goto", "ok")))
        verified == Append(gone, DuEvent("_verify_login_status",
                                         Bool(env.verify)))
    IN  IF env.raise_at = "goto" THEN ScResult(FALSE, me, cookie, gone)
        ELSE IF env.verify
        THEN ScResult(TRUE, [me EXCEPT !.is_logged_in = TRUE], cookie,
                      verified)
        ELSE SC_scan_login(me, account, cookie, env, verified)

\* XiaohongshuUploader.login: the session is verified only when stored
\* cookies were loaded
XHS_login(self, account, cookie, env) ==
    LET gone == <<DuEvent("goto", RaiseOr(env, "goto", "ok"))>>
        loaded == Append(gone, DuEvent("_load_cookies",
                                       Bool(SC_load_cookies(cookie, env))))
        reloaded == Append(loaded,
                           DuEvent("reload", RaiseOr(env, "reload", "ok")))
        verified == Append(reloaded, DuEvent("_verify_login_status",
                                             Bool(env.verify)))
    IN  IF env.raise_at = "goto" THEN ScResult(FALSE, self, cookie, gone)
        ELSE IF ~SC_load_cookies(cookie, env)
        THEN SC_scan_login(self, account, cookie, env, loaded)
        ELSE IF env.raise_at = "reload"
        THEN ScResult(FALSE, self, cookie, reloaded)
        ELSE IF env.verify
        THEN ScResult(TRUE, [self EXCEPT !.is_logged_in = TRUE], cookie,
                      verified)
        ELSE SC_scan_login(self, account, cookie, env, verified)

SC_login(platform, self, account, cookie, env) ==
    IF platform = "wechat_channel" THEN WC_login(self, account, cookie, env)
    ELSE XHS_login(self, account, cookie, env)

\* _upload_video_file: false when no file input is found or a call raises
FileOutcomes == {"set", "no_input", "raised"}

WC_upload_video_file(outcome) == outcome = "set"

\* _wait_video_processing: true when the publish button is enabled, false
\* on an error that offers no delete tag, true when the outer handler
\* catches an exception
ProcessingOutcomes == {"enabled", "error", "raised"}

WC_wait_video_processing(outcome) == outcome # "error"

\* _publish_video: each turn clicks the button when there is one and waits
\* five seconds for the list URL; a wait that raises ends the loop only if
\* the page is on the list URL by then.  The last turn is env.turns.
RECURSIVE WC_publish_video(_, _, _)
WC_publish_video(log, env, turn) ==
    LET clicked == IF env.button
                   THEN Append(log, DuEvent("publish.click", "ok")) ELSE log
        last == turn >= env.turns
        waited == Append(clicked,
                         DuEvent("publish.wait_for_url",
                                 IF last /\ ~env.late THEN "ok" ELSE "raise"))
        handled == IF last /\ ~env.late THEN waited
                   ELSE Append(waited, DuEvent("page.url",
                                               IF last THEN "post/list"
                                               ELSE "post/create"))
    IN  IF last THEN handled ELSE WC_publish_video(handled, env, turn + 1)

\* the end of upload_video: _save_cookies(self.current_account), then
\* return await self._publish_video()
WC_save_then_publish(self, cookie, env, log) ==
    LET saved == SC_save_cookies(log, cookie, self.current_account, env)
    IN  ScResult(TRUE, self, saved.cookie,
                 WC_publish_video(saved.log, env, 1))

\* _set_original_declaration: what it does depends on what the page
\* offers: nothing, the "视频为原创" checkbox, or the declaration dialog
\* with its checkbox and its "声明原创" button; failures are swallowed
OriginalPages == {"nothing", "checkbox", "dialog"}

WC_set_original_declaration(log, env) ==
    LET called == Append(log, DuEvent("_set_original_declaration", "ok"))
        checked == Append(called, DuEvent("original.check", "ok"))
    IN  IF env.original_page = "nothing" THEN called
        ELSE IF env.original_page = "checkbox" THEN checked
        ELSE Append(checked, DuEvent("original.declare", "ok"))

\* _fill_video_info: title and tags are typed, then the declaration is
\* set if video_info.original_statement; a page call that raises ends the
\* function in its own handler, before the declaration
WC_fill_video_info(log, video_info, env) ==
    LET typed == Append(log, DuEvent("_fill_video_info",
                                     IF env.fill_raises THEN "failed"
                                     ELSE "ok"))
    IN  IF ~env.fill_raises /\ video_info.original_statement
        THEN WC_set_original_declaration(typed, env)
        ELSE typed

\* WechatChannelUploader.upload_video
WC_upload_video(self, video_info, cookie, env) ==
    LET checked == IF self.is_logged_in THEN <<>>
                   ELSE <<DuEvent("_verify_login_status", Bool(env.verify))>>
        me == [self EXCEPT !.is_logged_in = TRUE]
        gone == Append(checked, DuEvent("goto", RaiseOr(env, "goto", "ok")))
        arrived == Append(gone, DuEvent("wait_for_url",
                                        RaiseOr(env, "wait_for_url", "ok")))
        selected == Append(arrived,
                           DuEvent("_upload_video_file",
                                   Bool(WC_upload_video_file(env.file))))
        filled == WC_set_original_declaration(
                      Append(WC_fill_video_info(selected, video_info, env),
                             DuEvent("_add_collection", "ok")),
                      env)
        processed == Append(filled,
                            DuEvent("_wait_video_processing",
                                    Bool(WC_wait_video_processing(
                                             env.processing))))
    IN  IF ~self.is_logged_in /\ ~env.verify
        THEN ScResult(FALSE, self, cookie, checked)
        ELSE IF env.raise_at = "goto" THEN ScResult(FALSE, me, cookie, gone)
        ELSE IF env.raise_at = "wait_for_url"
        THEN ScResult(FALSE, me, cookie, arrived)
        ELSE IF ~WC_upload_video_file(env.file)
        THEN ScResult(FALSE, me, cookie, selected)
        ELSE IF ~WC_wait_video_processing(env.processing)
        THEN ScResult(FALSE, me, cookie, processed)
        ELSE WC_save_then_publish(me, cookie, env, processed)

(***************************************************************************)
(* KuaishouUploader._publish_video (core/kuaishou_uploader.py).  A URL is  *)
(* the sequence of its host and path segments; the pages drawn carry       *)
(* "manage" and "content" as whole segments only, so the substring test    *)
(* of the code is a test for a segment.                                    *)
(***************************************************************************)
KsManageUrl == <<"cp.kuaishou.com", "article", "manage", "video">>

KsContentUrl == <<"cp.kuaishou.com", "profile", "content">>

KsPublishUrl == <<"cp.kuaishou.com", "article", "publish", "video">>

KsUrls == {KsManageUrl, KsContentUrl, KsPublishUrl}

\* word in current_url
InUrl(word, url) == \E i \in 1..Len(url) : url[i] = word

\* a test that takes every page for the works page
KsPublishedAnywhere(current_url) == TRUE

\* "manage" in current_url or "content" in current_url
KsPublished(current_url) ==
    InUrl("manage", current_url) \/ InUrl("content", current_url)

\* _publish_video: the button is looked up (a second locator when the first
\* matches nothing) and clicked; count and click raise into the handler
KS_publish_video(self, cookie, env) ==
    LET counted == <<DuEvent("count", RaiseOr(env, "count",
                                              IF env.found THEN "1" ELSE "0"))>>
        located == IF env.found THEN counted
                   ELSE Append(counted, DuEvent("locator", "ok"))
        clicked == Append(located,
                          DuEvent("click", RaiseOr(env, "click", "ok")))
        looked == Append(clicked,
                         DuEvent("page.url", IF KsPublished(env.url)
                                             THEN "published" ELSE "other"))
        saved == SC_save_cookies(looked, cookie, self.current_account, env)
    IN  IF env.raise_at = "count" THEN ScResult(FALSE, self, cookie, counted)
        ELSE IF env.raise_at = "click"
        THEN ScResult(FALSE, self, cookie, clicked)
        ELSE IF KsPublished(env.url)
        THEN ScResult(TRUE, self, saved.cookie, saved.log)
        ELSE ScResult(TRUE, self, cookie,
                      Append(looked, DuEvent("sleep", "ok")))

KsPublishEnvs ==
    [raise_at : {"none", "count", "click"}, found : BOOLEAN, url : KsUrls,
     save_fails : BOOLEAN]

(***************************************************************************)
(* Calls drawn for the scan-login drivers.  is_logged_in is set by login   *)
(* and by the verification at the head of upload_video, current_account    *)
(* by the WeChat login only; the Xiaohongshu driver has no such field.     *)
(***************************************************************************)
ScanDrivers ==
    {ScanDriver(is_logged_in, current_account) :
        is_logged_in \in BOOLEAN, current_account \in {None, ScanAccount}}

ScLoginEnvs ==
    [raise_at : {"none", "goto", "reload"}, loads : BOOLEAN,
     verify : BOOLEAN, need_scan : BOOLEAN, scanned : BOOLEAN,
     save_fails : BOOLEAN]

ScUploadEnvs ==
    [raise_at : {"none", "goto", "wait_for_url"}, verify : BOOLEAN,
     file : FileOutcomes, fill_raises : BOOLEAN,
     original_page : OriginalPages, processing : ProcessingOutcomes,
     save_fails : BOOLEAN, button : BOOLEAN, turns : 1..MaxPublishTurns,
     late : BOOLEAN]

\* WechatChannelVideoInfo: original_statement defaults to True
WcVideoInfos == [original_statement : BOOLEAN]

InitScan ==
    /\ \/ \E platform \in ScanPlatforms, self \in ScanDrivers,
             cookie \in Cookies, env \in ScLoginEnvs :
            /\ platform = "xiaohongshu" => IsNone(self.current_account)
            /\ platform = "wechat_channel" => env.raise_at # "reload"
            /\ dsReq = [op |-> "scan.login", platform |-> platform,
                        self |-> self, account |-> ScanAccount,
                        cookie |-> cookie, env |-> env]
       \/ \E self \in ScanDrivers, video_info \in WcVideoInfos,
             cookie \in Cookies, env \in ScUploadEnvs :
            dsReq = [op |-> "scan.upload_video",
                     platform |-> "wechat_channel", self |-> self,
                     video_info |-> video_info,
                     cookie |-> cookie, env |-> env]
       \/ \E self \in ScanDrivers, cookie \in Cookies, env \in KsPublishEnvs :
            dsReq = [op |-> "kuaishou._publish_video",
                     platform |-> "kuaishou", self |-> self,
                     cookie |-> cookie, env |-> env]
    /\ dsResp = DsIdleResp
    /\ dsLog = <<>>

ScResponse(r) ==
    [success |-> r.ret, message |-> "returned", self |-> r.self,
     cookie |-> r.cookie]

ScLogin ==
    /\ dsReq.op = "scan.login"
    /\ dsResp = DsIdleResp
    /\ LET r == SC_login(dsReq.platform, dsReq.self, dsReq.account,
                         dsReq.cookie, dsReq.env)
       IN  /\ dsResp' = ScResponse(r)
           /\ dsLog' = r.log
    /\ UNCHANGED dsReq

ScUploadVideo ==
    /\ dsReq.op = "scan.upload_video"
    /\ dsResp = DsIdleResp
    /\ LET r == WC_upload_video(dsReq.self, dsReq.video_info, dsReq.cookie,
                                dsReq.env)
       IN  /\ dsResp' = ScResponse(r)
           /\ dsLog' = r.log
    /\ UNCHANGED dsReq

KsPublishVideo ==
    /\ dsReq.op = "kuaishou._publish_video"
    /\ dsResp = DsIdleResp
    /\ LET r == KS_publish_video(dsReq.self, dsReq.cookie, dsReq.env)
       IN  /\ dsResp' = ScResponse(r)
           /\ dsLog' = r.log
    /\ UNCHANGED dsReq

(***************************************************************************)
(* Concurrent Douyin operations on one account's cookie file.  Each        *)
(* request handler is a coroutine on the event loop; every await is a      *)
(* point at which another coroutine may run.  DouyinUploader.login         *)
(* (core/douyin_uploader.py 69-95) opens a fresh context, waits at         *)
(* page.pause() and writes the context's storage state to the cookie       *)
(* file.  DouyinService.upload_video (services/douyin_service.py 106-122)  *)
(* builds a driver, runs check_cookie and then upload_video, whose         *)
(* context is created from the cookie file and written back to it after    *)
(* the publish.  A storage state is [by, base]: the coroutine whose        *)
(* context it came from and the writer of the file that context was        *)
(* created from (0 for a fresh context or the file stored beforehand).     *)
(***************************************************************************)
MaxTasks == 2

TaskIds == 1..MaxTasks

NoTasks == <<>>

NothingShared == [kind |-> "none"]

StoredBefore == [by |-> 0, base |-> 0]

StorageState(by, base) == [by |-> by, base |-> base]

Task(op, pc, session) == [op |-> op, pc |-> pc, session |-> session]

CookieOps == {"login", "upload"}

\* storage_state(path=cookie_file) that gives up when the file is no longer
\* the one the context was created from
WriteIfUnchanged(file, session) ==
    IF (IsNone(file) /\ session.base = 0)
       \/ (~IsNone(file) /\ Get(file).by = session.base)
    THEN Some(session) ELSE file

\* context.storage_state(path=cookie_file): the file is overwritten
storage_state(file, session) == Some(session)

InitCookieRace ==
    /\ \E ops \in [TaskIds -> CookieOps], cookie \in {None, Some(StoredBefore)} :
         /\ tasks = [t \in TaskIds |->
                       Task(ops[t], IF ops[t] = "login" THEN "new_context"
                                    ELSE "check_cookie", None)]
         /\ shared = [kind |-> "cookie_file", cookie |-> cookie,
                      writes |-> <<>>]

\* check_cookie: a missing file, or a session the site no longer accepts,
\* ends the upload with "Cookie无效"
CrCheckCookie ==
    \E t \in TaskIds, valid \in BOOLEAN :
        /\ tasks[t].pc = "check_cookie"
        /\ tasks' = [tasks EXCEPT ![t].pc =
                        IF ~IsNone(shared.cookie) /\ valid
                        THEN "new_context" ELSE "returned_false"]
        /\ UNCHANGED shared

\* browser.new_context(): login starts from nothing, upload from the file
CrNewContext ==
    \E t \in TaskIds :
        /\ tasks[t].pc = "new_context"
        /\ tasks' =
              IF tasks[t].op = "login"
              THEN [tasks EXCEPT ![t].pc = "in_page",
                                 ![t].session = Some(StorageState(t, 0))]
              ELSE IF IsNone(shared.cookie)
              THEN [tasks EXCEPT ![t].pc = "returned_false"]
              ELSE [tasks EXCEPT
                       ![t].pc = "in_page",
                       ![t].session =
                           Some(StorageState(t, Get(shared.cookie).by))]
        /\ UNCHANGED shared

\* the page work up to the save point: page.pause() of login, the steps of
\* _upload_video_impl up to _publish_video; it may raise
CrPageWork ==
    \E t \in TaskIds, raised \in BOOLEAN :
        /\ tasks[t].pc = "in_page"
        /\ tasks' = [tasks EXCEPT ![t].pc = IF raised THEN "returned_false"
                                            ELSE "storage_state"]
        /\ UNCHANGED shared

\* the save point: await context.storage_state(path=self.cookie_file)
CrStorageState ==
    \E t \in TaskIds :
        /\ tasks[t].pc = "storage_state"
        /\ shared' =
              [shared EXCEPT
                  !.cookie = storage_state(shared.cookie,
                                           Get(tasks[t].session)),
                  !.writes = IF storage_state(shared.cookie,
                                              Get(tasks[t].session))
                                = Some(Get(tasks[t].session))
                             THEN Append(shared.writes, t)
                             ELSE shared.writes]
        /\ tasks' = [tasks EXCEPT ![t].pc = "returned_true"]

(***************************************************************************)
(* Concurrent PlatformManager requests on the cached drivers               *)
(* (services/platform_manager.py 224-246, start_browser of                 *)
(* core/wechat_channel_uploader.py 37-72 and core/xiaohongshu_uploader.py  *)
(* 34-59).  _get_uploader runs without an await from the lookup in         *)
(* self.uploaders to the call of start_browser; start_browser awaits the   *)
(* playwright start, the launch (whose result is assigned to               *)
(* self.browser), the context, the page and the stealth script.  A         *)
(* browser is named by the task that launched it; the browser of a driver  *)
(* started before the requests came in is named after the last task.       *)
(***************************************************************************)
SharedPlatforms == {"wechat_channel", "xiaohongshu"}

EarlierBrowser == MaxTasks + 1

\* the cached driver: its browser field, the start_browser calls made on
\* it, and every browser launched for it
CachedDriver(browser, start_calls, launched) ==
    [browser |-> browser, start_calls |-> start_calls, launched |-> launched]

NewDriver == CachedDriver(None, 0, {})

StartedDriver == CachedDriver(Some(EarlierBrowser), 0, {EarlierBrowser})

BrTask(platform, pc) == [platform |-> platform, pc |-> pc]

\* not hasattr(uploader, 'browser') or not uploader.browser
BrowserUnset(uploader) == IsNone(uploader.browser)

InitBrowserRace ==
    /\ \E platforms \in [TaskIds -> SharedPlatforms],
          cached \in [SharedPlatforms -> {None, Some(NewDriver),
                                          Some(StartedDriver)}] :
         /\ tasks = [t \in TaskIds |-> BrTask(platforms[t], "_get_uploader")]
         /\ shared = [kind |-> "uploaders", uploaders |-> cached]

\* _get_uploader up to its first await: the driver is created when the
\* platform has none, and start_browser is called when its browser is unset
BrGetUploader ==
    \E t \in TaskIds :
        LET p == tasks[t].platform
            uploader == IF IsNone(shared.uploaders[p]) THEN NewDriver
                        ELSE Get(shared.uploaders[p])
        IN  /\ tasks[t].pc = "_get_uploader"
            /\ IF BrowserUnset(uploader)
               THEN /\ shared' = [shared EXCEPT !.uploaders[p] =
                                     Some([uploader EXCEPT !.start_calls = @ + 1])]
                    /\ tasks' = [tasks EXCEPT ![t].pc = "playwright.start"]
               ELSE /\ shared' = [shared EXCEPT !.uploaders[p] = Some(uploader)]
                    /\ tasks' = [tasks EXCEPT ![t].pc = "returned"]

\* playwright = await async_playwright().start()
BrPlaywrightStart ==
    \E t \in TaskIds :
        /\ tasks[t].pc = "playwright.start"
        /\ tasks' = [tasks EXCEPT ![t].pc = "launch"]
        /\ UNCHANGED shared

\* self.browser = await playwright.chromium.launch(...); a launch that
\* raises ends the request in the handler of login or upload_video
BrLaunch ==
    \E t \in TaskIds, raised \in BOOLEAN :
        LET p == tasks[t].platform
        IN  /\ tasks[t].pc = "launch"
            /\ IF raised
               THEN /\ tasks' = [tasks EXCEPT ![t].pc = "raised"]
                    /\ UNCHANGED shared
               ELSE /\ tasks' = [tasks EXCEPT ![t].pc = "new_page"]
                    /\ shared' = [shared EXCEPT !.uploaders[p] =
                                     Some([Get(@) EXCEPT
                                              !.browser = Some(t),
                                              !.launched = @ \cup {t}])]

\* the context, the page and the stealth script; _get_uploader returns
BrNewPage ==
    \E t \in TaskIds :
        /\ tasks[t].pc = "new_page"
        /\ tasks' = [tasks EXCEPT ![t].pc = "returned"]
        /\ UNCHANGED shared

(***************************************************************************)
(* The specifications.                                                     *)
(***************************************************************************)
IdleSched == schedIn = SchedIdle /\ schedOut = Pending
IdleDouyin == dsReq = DsIdleReq /\ dsResp = DsIdleResp /\ dsLog = <<>>
IdlePM == /\ accounts = EmptyRegistry
          /\ uploaders = EmptyCache
          /\ pmReq = PmIdleReq
          /\ pmResp = DsIdleResp
          /\ pmLog = <<>>

IdleCfg == /\ config_file = Absent
           /\ cached_config = None
           /\ cfgResp = CfgIdleResp
           /\ cfgLog = <<>>

IdleUp == up = UpIdle /\ page = PageIdle

IdleCo == tasks = NoTasks /\ shared = NothingShared

NextSched == Generate /\ UNCHANGED <<dsVars, pmVars, cfgVars, upVars, coVars>>

StartSched == InitSched /\ IdleDouyin /\ IdlePM /\ IdleCfg /\ IdleUp /\ IdleCo

SpecSched == StartSched /\ [][NextSched]_vars

NextDouyin ==
    \/ DsUploadVideo /\ UNCHANGED <<schedVars, pmVars, cfgVars, upVars, coVars>>
    \/ DsBatchUpload /\ UNCHANGED <<schedVars, pmVars, cfgVars, upVars, coVars>>
    \/ DsCheckAccountStatus /\ UNCHANGED <<schedVars, pmVars, cfgVars, upVars, coVars>>

StartDouyin == IdleSched /\ (InitDouyin \/ InitStatus) /\ IdlePM /\ IdleCfg /\ IdleUp /\ IdleCo

SpecDouyin == StartDouyin /\ [][NextDouyin]_vars

NextPM ==
    \/ PmLogin /\ UNCHANGED <<schedVars, dsVars, cfgVars, upVars, coVars>>
    \/ PmUploadVideo /\ UNCHANGED <<schedVars, dsVars, cfgVars, upVars, coVars>>
    \/ PmBatchUpload /\ UNCHANGED <<schedVars, dsVars, cfgVars, upVars, coVars>>
    \/ PmCloseAll /\ UNCHANGED <<schedVars, dsVars, cfgVars, upVars, coVars>>
    \/ PmAddAccount /\ UNCHANGED <<schedVars, dsVars, cfgVars, upVars, coVars>>

StartPM == IdleSched /\ IdleDouyin /\ InitPM /\ IdleCfg /\ IdleUp /\ IdleCo

SpecPM == StartPM /\ [][NextPM]_vars

NextConfig == ConstructConfig /\ UNCHANGED <<dsVars, pmVars, cfgVars, upVars, coVars>>

StartConfig == InitConfig /\ IdleDouyin /\ IdlePM /\ IdleCfg /\ IdleUp /\ IdleCo

SpecConfig == StartConfig /\ [][NextConfig]_vars

NextDiscovery == PmConstruct /\ UNCHANGED <<schedVars, dsVars, cfgVars, upVars, coVars>>

StartDiscovery == IdleSched /\ IdleDouyin /\ InitDiscovery /\ IdleCfg /\ IdleUp /\ IdleCo

SpecDiscovery == StartDiscovery /\ [][NextDiscovery]_vars

NextDriver ==
    \/ DuUploadVideo /\ UNCHANGED <<schedVars, pmVars, cfgVars, upVars, coVars>>
    \/ DuCheckCookie /\ UNCHANGED <<schedVars, pmVars, cfgVars, upVars, coVars>>

StartDriver == IdleSched /\ InitDriver /\ IdlePM /\ IdleCfg /\ IdleUp /\ IdleCo

SpecDriver == StartDriver /\ [][NextDriver]_vars

NextCfgService ==
    \/ CsLoadConfig /\ UNCHANGED <<schedVars, dsVars, pmVars, upVars, coVars>>
    \/ CsSaveConfig /\ UNCHANGED <<schedVars, dsVars, pmVars, upVars, coVars>>
    \/ CsFileEdited /\ UNCHANGED <<schedVars, dsVars, pmVars, upVars, coVars>>
    \/ CsInit /\ UNCHANGED <<schedVars, dsVars, pmVars, upVars, coVars>>

StartCfgService == IdleSched /\ IdleDouyin /\ IdlePM /\ InitCfgService /\ IdleUp /\ IdleCo

SpecCfgService == StartCfgService /\ [][NextCfgService]_vars

NextApi ==
    \/ ApiServiceEndpoint /\ UNCHANGED <<schedVars, pmVars, cfgVars, upVars, coVars>>
    \/ ApiGetConfig /\ UNCHANGED <<schedVars, pmVars, cfgVars, upVars, coVars>>
    \/ ApiUploadFile /\ UNCHANGED <<schedVars, pmVars, cfgVars, upVars, coVars>>

StartApi == IdleSched /\ InitApi /\ IdlePM /\ IdleCfg /\ IdleUp /\ IdleCo

SpecApi == StartApi /\ [][NextApi]_vars

NextSidecar == GetTitleAndHashtags /\ UNCHANGED <<schedVars, pmVars, cfgVars, upVars, coVars>>

StartSidecar == IdleSched /\ InitSidecar /\ IdlePM /\ IdleCfg /\ IdleUp /\ IdleCo

SpecSidecar == StartSidecar /\ [][NextSidecar]_vars

UpFrame == UNCHANGED <<schedVars, dsVars, pmVars, cfgVars, coVars>>

NextUpload ==
    \/ UpBegin /\ UpFrame
    \/ UpWaitForPublishPage /\ UpFrame
    \/ UpWaitForUploadComplete /\ UpFrame
    \/ UpSteps /\ UpFrame
    \/ UpPublishClick /\ UpFrame
    \/ UpPublishWait /\ UpFrame
    \/ PageEntersPublish /\ UpFrame
    \/ PageUploadDone /\ UpFrame
    \/ PageUploadFails /\ UpFrame
    \/ PageRetryStarts /\ UpFrame
    \/ PagePublished /\ UpFrame

StartUpload ==
    IdleSched /\ IdleDouyin /\ IdlePM /\ IdleCfg /\ InitUpload /\ IdleCo

\* the driver goes on as long as it has a step to take, and the platform
\* reaches each state the driver waits for
UploadFairness ==
    /\ WF_vars(UpBegin /\ UpFrame)
    /\ WF_vars(UpWaitForPublishPage /\ UpFrame)
    /\ WF_vars(UpWaitForUploadComplete /\ UpFrame)
    /\ WF_vars(UpSteps /\ UpFrame)
    /\ WF_vars(UpPublishClick /\ UpFrame)
    /\ WF_vars(UpPublishWait /\ UpFrame)
    /\ WF_vars(PageEntersPublish /\ UpFrame)
    /\ WF_vars(PageUploadDone /\ UpFrame)
    /\ WF_vars(PageRetryStarts /\ UpFrame)
    /\ WF_vars(PagePublished /\ UpFrame)

SpecUpload == StartUpload /\ [][NextUpload]_vars

SpecUploadLive == StartUpload /\ [][NextUpload]_vars /\ UploadFairness

NextScan ==
    \/ ScLogin /\ UNCHANGED <<schedVars, pmVars, cfgVars, upVars, coVars>>
    \/ ScUploadVideo /\ UNCHANGED <<schedVars, pmVars, cfgVars, upVars, coVars>>
    \/ KsPublishVideo /\ UNCHANGED <<schedVars, pmVars, cfgVars, upVars, coVars>>

StartScan == IdleSched /\ InitScan /\ IdlePM /\ IdleCfg /\ IdleUp /\ IdleCo

SpecScan == StartScan /\ [][NextScan]_vars

CoFrame == UNCHANGED <<schedVars, dsVars, pmVars, cfgVars, upVars>>

NextCookieRace ==
    \/ CrCheckCookie /\ CoFrame
    \/ CrNewContext /\ CoFrame
    \/ CrPageWork /\ CoFrame
    \/ CrStorageState /\ CoFrame

StartCookieRace ==
    IdleSched /\ IdleDouyin /\ IdlePM /\ IdleCfg /\ IdleUp /\ InitCookieRace

SpecCookieRace == StartCookieRace /\ [][NextCookieRace]_vars

NextBrowserRace ==
    \/ BrGetUploader /\ CoFrame
    \/ BrPlaywrightStart /\ CoFrame
    \/ BrLaunch /\ CoFrame
    \/ BrNewPage /\ CoFrame

StartBrowserRace ==
    IdleSched /\ IdleDouyin /\ IdlePM /\ IdleCfg /\ IdleUp /\ InitBrowserRace

SpecBrowserRace == StartBrowserRace /\ [][NextBrowserRace]_vars

NextShared ==
    \/ ShLogin /\ UNCHANGED <<schedVars, dsVars, cfgVars, upVars, coVars>>
    \/ ShUploadVideo /\ UNCHANGED <<schedVars, dsVars, cfgVars, upVars, coVars>>

StartShared == IdleSched /\ IdleDouyin /\ InitShared /\ IdleCfg /\ IdleUp /\ IdleCo

SpecShared == StartShared /\ [][NextShared]_vars

Init == StartSched
Next == NextSched
Spec == SpecSched

(***************************************************************************)
(* Claims about the schedule generator (SpecSched).                        *)
(***************************************************************************)
SchedDone == schedOut # Pending

SchedTimes == IF IsNone(schedIn.daily_times) THEN DefaultDailyTimes
              ELSE Get(schedIn.daily_times)

SchedPerDayOk ==
    0 < schedIn.videos_per_day /\ schedIn.videos_per_day <= Len(SchedTimes)

\* what the claim promises of a result: n timestamps, the i-th at hour
\* daily_times[i mod videos_per_day], minute and second zero, on the day
\* start_days + 1 + floor(i / videos_per_day) after today
SchedAsPromised ==
    /\ schedOut.raised = "none"
    /\ Len(schedOut.schedule) = schedIn.total_videos
    /\ \A i \in 0..(schedIn.total_videos - 1) :
         LET t == schedOut.schedule[i + 1]
         IN  /\ t.hour = SchedTimes[(i % schedIn.videos_per_day) + 1]
             /\ t.minute = 0
             /\ t.second = 0
             /\ t.day = schedIn.now.day + schedIn.start_days + 1
                        + (i \div schedIn.videos_per_day)

\* C4 as stated: for all inputs with 0 < videos_per_day <= len(daily_times)
\* the result has exactly n timestamps with the promised hour and date
\* (read for a count n >= 0 of videos).
C4_AsStated ==
    (SchedDone /\ SchedPerDayOk /\ schedIn.total_videos >= 0) => SchedAsPromised

SchedHoursOk ==
    \A k \in 1..schedIn.videos_per_day : ValidHour(SchedTimes[k])

SchedDatesOk ==
    \A i \in 0..(schedIn.total_videos - 1) :
        Representable(schedIn.now.day + schedIn.start_days + 1
                      + (i \div schedIn.videos_per_day))

\* C4 (amended): for all inputs with total_videos >= 0,
\* 0 < videos_per_day <= len(daily_times), the first videos_per_day hours in
\* 0..23 and every resulting date within the range of datetime, the result
\* has exactly n timestamps, the i-th with hour daily_times[i mod
\* videos_per_day], zero minute/second and a date start_days + 1 +
\* floor(i / videos_per_day) days after today.
C4_Schedule ==
    (SchedDone /\ SchedPerDayOk /\ schedIn.total_videos >= 0
       /\ SchedHoursOk /\ SchedDatesOk) => SchedAsPromised

C4_Witness ==
    /\ SchedDone
    /\ schedIn.total_videos = 3
    /\ schedIn.videos_per_day = 2
    /\ schedIn.daily_times = Some(<<9, 21>>)
    /\ schedIn.start_days = 1
    /\ schedIn.now.minute = 30
    /\ schedOut.raised = "none"
    /\ Len(schedOut.schedule) = 3

\* C5: the generator fails with ValueError and returns no schedule whenever
\* videos_per_day <= 0 or videos_per_day > len(daily_times) (the default
\* list when daily_times is None), for every total_videos including 0.
C5_InvalidInput ==
    (SchedDone /\ ~SchedPerDayOk)
        => (schedOut.raised = "ValueError" /\ schedOut.schedule = <<>>)

C5_Witness ==
    /\ SchedDone
    /\ schedIn.total_videos = 0
    /\ IsNone(schedIn.daily_times)
    /\ schedIn.videos_per_day = Len(DefaultDailyTimes) + 1
    /\ schedOut.raised = "ValueError"

(***************************************************************************)
(* Claims about the Douyin service (SpecDouyin).                           *)
(***************************************************************************)
DsDone == dsResp # DsIdleResp

DsUploadEvents == {i \in 1..Len(dsLog) : dsLog[i].ev = "upload_video"}

\* C1: the driver's upload step runs only after check_cookie on the same,
\* freshly constructed driver returned true (in a single upload and in every
\* item of a batch); a false check_cookie gives success=false with the
\* re-login message and no upload step.
C1_CookieGate ==
    /\ \A i \in DsUploadEvents :
         /\ i > 2
         /\ dsLog[i - 1].ev = "check_cookie"
         /\ dsLog[i - 1].drv = dsLog[i].drv
         /\ dsLog[i - 1].ret = "true"
         /\ dsLog[i - 2].ev = "new"
         /\ dsLog[i - 2].drv = dsLog[i].drv
         /\ \A j \in 1..Len(dsLog) :
              (dsLog[j].ev = "new" /\ dsLog[j].drv = dsLog[i].drv) => j = i - 2
    /\ (DsDone /\ dsReq.op = "upload_video" /\ dsReq.env.check_cookie = "false")
         => /\ ~dsResp.success
            /\ dsResp.message = "cookie invalid, login again"
            /\ DsUploadEvents = {}
    /\ (DsDone /\ dsReq.op = "batch_upload")
         => \A k \in 1..Len(dsResp.results) :
              dsReq.envs[k].check_cookie = "false"
                 => /\ ~dsResp.results[k].success
                    /\ dsResp.results[k].message = "cookie invalid, login again"
                    /\ \A i \in DsUploadEvents : dsLog[i].drv # k

C1_Witness ==
    /\ DsDone
    /\ dsReq.op = "upload_video"
    /\ dsReq.env.check_cookie = "false"
    /\ dsResp.message = "cookie invalid, login again"
    /\ Len(dsLog) = 2

DsBatchDone == DsDone /\ dsReq.op = "batch_upload"

DsExceeds ==
    dsReq.request.config.videos_per_day > Len(dsReq.request.config.daily_times)

\* C2: when videos_per_day exceeds the number of daily_times the batch is
\* rejected with the descriptive message: success=false, success_count=0,
\* no results, and no cookie check or upload for any video.
C2_Rejected ==
    (DsBatchDone /\ DsExceeds)
        => /\ ~dsResp.success
           /\ dsResp.message = "more videos per day than times"
           /\ dsResp.success_count = 0
           /\ dsResp.results = <<>>
           /\ dsLog = <<>>

C2_Witness ==
    /\ DsBatchDone
    /\ DsExceeds
    /\ Len(dsReq.request.video_list) = 2
    /\ \A k \in 1..2 : dsReq.envs[k].check_cookie = "true"
    /\ ~dsResp.success
    /\ dsLog = <<>>

\* what the claim promises of an accepted batch
DsOneResultPerVideo ==
    /\ dsResp.total_videos = Len(dsReq.request.video_list)
    /\ Len(dsResp.results) = Len(dsReq.request.video_list)
    /\ \A k \in 1..Len(dsResp.results) :
         /\ dsResp.results[k].success
              <=> (dsReq.envs[k].check_cookie = "true"
                   /\ dsReq.envs[k].upload = "true")
         /\ dsResp.results[k].success
              => dsResp.results[k].title
                   = ResolveVideoInfo(dsReq.request.video_list[k]).title
    /\ dsResp.success_count
         = Cardinality({k \in 1..Len(dsResp.results) : dsResp.results[k].success})

\* C3 as stated: every batch that passes the videos_per_day check gets one
\* result per input video, in input order, and a matching success_count.
C3_AsStated == (DsBatchDone /\ ~DsExceeds) => DsOneResultPerVideo

DsDatesOk ==
    \A i \in 0..(Len(dsReq.request.video_list) - 1) :
        Representable(dsReq.now.day + dsReq.request.config.start_days + 1
                      + (i \div dsReq.request.config.videos_per_day))

\* C3 (amended): every batch that passes the videos_per_day check and whose
\* publish dates all lie within the range of datetime has total_videos =
\* len(video_list), one result per input video in input order and
\* success_count equal to the number of successful results; when a publish
\* date is out of range the schedule generator raises and the response is
\* success=false with no results.
C3_OneResultPerVideo ==
    /\ (DsBatchDone /\ ~DsExceeds /\ DsDatesOk) => DsOneResultPerVideo
    /\ (DsBatchDone /\ ~DsExceeds /\ ~DsDatesOk)
         => (~dsResp.success /\ dsResp.results = <<>>
             /\ dsResp.success_count = 0
             /\ dsResp.total_videos = Len(dsReq.request.video_list))

C3_Witness ==
    /\ DsBatchDone
    /\ ~DsExceeds
    /\ Len(dsReq.request.video_list) = 2
    /\ Len(dsResp.results) = 2
    /\ dsResp.results[1].success
    /\ ~dsResp.results[2].success
    /\ dsReq.request.video_list[1] # dsReq.request.video_list[2]
    /\ dsResp.success_count = 1

\* C6 as stated: every publish timestamp a batch assigns to an item lies on
\* a calendar day strictly after the day the batch was started.
C6_AsStated ==
    DsBatchDone
        => \A i \in 1..Len(dsLog) :
             (dsLog[i].ev = "new" /\ ~IsNone(dsLog[i].publish_date))
                => Get(dsLog[i].publish_date).day > dsReq.started

(***************************************************************************)
(* Claims about the platform manager (SpecPM).                             *)
(***************************************************************************)
PmKey == AccountKey(pmReq.platform, pmReq.account_name)

PmEvents(log, ev) == {i \in 1..Len(log) : log[i].ev = ev}

PmStartFailed ==
    \E i \in PmEvents(pmLog, "start_browser") : pmLog[i].ret = "raise"

\* C7: a driver's upload is invoked for (platform, account_name) only if the
\* registry held a logged-in account under that key when the call started;
\* otherwise upload_video returns success=false and leaves the registry and
\* the uploader cache as they were.
C7_UploadNeedsLogin ==
    [][pmReq'.op \in {"upload_video", "batch_upload"}
         => LET key == AccountKey(pmReq'.platform, pmReq'.account_name)
                ready == key \in DOMAIN accounts /\ accounts[key].is_logged_in
            IN  /\ \A i \in PmEvents(pmLog', "upload_video") :
                     ready /\ pmLog'[i].platform = pmReq'.platform
                /\ (pmReq'.op = "upload_video" /\ ~ready)
                     => /\ ~pmResp'.success
                        /\ accounts' = accounts
                        /\ uploaders' = uploaders]_vars

C7_Witness ==
    /\ pmReq.op = "upload_video"
    /\ PmKey \in DOMAIN accounts
    /\ ~accounts[PmKey].is_logged_in
    /\ ~pmResp.success
    /\ pmResp.message = "not logged in"
    /\ "wechat_channel" \in DOMAIN uploaders
    /\ pmLog = <<>>

\* C8 as stated: on each of the three supported platforms login resolves or
\* creates the account, invokes that platform's driver login (unless the
\* browser could not be started), and returns success=true with
\* is_logged_in = true exactly when the driver's login reported success.
C8_AsStated ==
    (pmReq.op = "login" /\ pmReq.platform \in supported_platforms
       /\ ~PmStartFailed)
        => /\ PmKey \in DOMAIN accounts
           /\ \E i \in PmEvents(pmLog, "login") :
                /\ pmLog[i].platform = pmReq.platform
                /\ pmResp.success <=> pmLog[i].ret = "true"
           /\ pmResp.success => accounts[PmKey].is_logged_in

\* C9 as stated: for a registered, logged-in account on any supported
\* platform whose video info converts and whose browser starts, the driver's
\* upload step is reached and the response is success=true, carrying the
\* video title, exactly when that step returned true.
C9_AsStated ==
    (/\ pmReq.op = "upload_video"
     /\ pmReq.platform \in supported_platforms
     /\ PmKey \in DOMAIN accounts
     /\ accounts[PmKey].is_logged_in
     /\ ~PmStartFailed
     /\ ConvertVideoInfo(pmReq.platform, pmReq.video_list[1]) = "ok")
        => /\ \E i \in PmEvents(pmLog, "upload_video") :
                /\ pmLog[i].platform = pmReq.platform
                /\ pmResp.success <=> pmLog[i].ret = "true"
           /\ pmResp.success => pmResp.title = pmReq.video_list[1].title

IsCall(e) == e.ev = "call"

\* C10: batch_upload makes one upload_video call per item, in input order,
\* each finished before the next starts; the response has one result per
\* item, success_count equal to the number of successful items, and success
\* true iff at least one item succeeded (false for an empty list).
C10_Batch ==
    pmReq.op = "batch_upload"
        => LET calls == SelectSeq(pmLog, IsCall)
               n == Len(pmReq.video_list)
               ok == {k \in 1..Len(pmResp.results) : pmResp.results[k].success}
           IN  /\ Len(calls) = n
               /\ \A k \in 1..n : calls[k].video = pmReq.video_list[k]
               /\ \A i \in PmEvents(pmLog, "upload_video") :
                    /\ i > 1
                    /\ \E c \in PmEvents(pmLog, "call") :
                         /\ c < i
                         /\ pmLog[c].video = pmLog[i].video
                         /\ \A j \in (c + 1)..(i - 1) :
                              pmLog[j].ev \notin {"call", "upload_video"}
               /\ pmResp.total_videos = n
               /\ Len(pmResp.results) = n
               /\ pmResp.success_count = Cardinality(ok)
               /\ pmResp.success <=> ok # {}
               /\ \A k \in ok : pmResp.results[k].title = pmReq.video_list[k].title

C10_Witness ==
    /\ pmReq.op = "batch_upload"
    /\ Len(pmReq.video_list) = 2
    /\ pmReq.video_list[1] # pmReq.video_list[2]
    /\ ~pmResp.results[1].success
    /\ pmResp.results[2].success
    /\ pmResp.success_count = 1
    /\ pmResp.success

C10_WitnessEmpty ==
    /\ pmReq.op = "batch_upload"
    /\ pmReq.video_list = <<>>
    /\ Ready(pmReq.platform, pmReq.account_name)
    /\ ~pmResp.success

PmOps == {"login", "upload_video", "batch_upload"}

\* the raise events of the log between positions lo and hi
PmRaisedIn(lo, hi) == {i \in PmEvents(pmLog, "raise") : lo < i /\ i < hi}

\* position of the k-th "call" event of a batch (Len + 1 past the last)
PmCallAt(k) ==
    LET calls == {i \in PmEvents(pmLog, "call") :
                     Cardinality({j \in PmEvents(pmLog, "call") : j <= i}) = k}
    IN  IF calls = {} THEN Len(pmLog) + 1 ELSE CHOOSE i \in calls : TRUE

SharedDriverPlatforms == {"wechat_channel", "xiaohongshu"}

\* does the step's request reach _get_uploader?  (a login on a platform
\* with a shared driver; an upload for a registered, logged-in account)
PmReachesDriver ==
    /\ pmReq'.platform \in SharedDriverPlatforms
    /\ \/ pmReq'.op = "login"
       \/ /\ pmReq'.op = "upload_video"
          /\ AccountKey(pmReq'.platform, pmReq'.account_name) \in DOMAIN accounts
          /\ accounts[AccountKey(pmReq'.platform, pmReq'.account_name)].is_logged_in

\* C12: when close_all_uploaders returns, after whatever operations, the
\* cache is empty and close_browser was attempted exactly once on every
\* entry that was cached, also on those after an entry whose close failed;
\* the next request that needs a platform's driver constructs a new one.
C12_CloseAll ==
    [][/\ pmReq'.op = "close_all_uploaders"
          => /\ uploaders' = EmptyCache
             /\ \A p \in DOMAIN uploaders :
                  Cardinality({i \in PmEvents(pmLog', "close_browser") :
                                  pmLog'[i].platform = p}) = 1
             /\ \A i \in PmEvents(pmLog', "close_browser") :
                  pmLog'[i].platform \in DOMAIN uploaders
       /\ (pmReq.op = "close_all_uploaders" /\ PmReachesDriver)
          => /\ \E i \in PmEvents(pmLog', "construct") :
                  pmLog'[i].platform = pmReq'.platform
             /\ pmReq'.platform \in DOMAIN uploaders']_vars

\* both shared drivers were cached with a browser; closing the first failed
\* and the second was closed all the same
C12_Witness ==
    /\ pmReq.op = "close_all_uploaders"
    /\ uploaders = EmptyCache
    /\ \E i, j \in PmEvents(pmLog, "close_browser") :
         /\ i < j
         /\ pmLog[i].platform = "wechat_channel"
         /\ pmLog[i].ret = "raise"
         /\ pmLog[j].platform = "xiaohongshu"
         /\ pmLog[j].ret = "ok"

\* the events of one kind that a step logged for platform p
PmStepEvents(ev, p) == {i \in PmEvents(pmLog', ev) : pmLog'[i].platform = p}

PmStartedOk(p) == {i \in PmStepEvents("start_browser", p) : pmLog'[i].ret = "ok"}

\* construction and reuse of the shared drivers, common to both readings
PmConstructsOnce(p) ==
    /\ Cardinality(PmStepEvents("construct", p)) <= 1
    /\ PmStepEvents("construct", p) # {} => p \notin DOMAIN uploaders
    /\ (p \notin DOMAIN uploaders /\ PmReachesDriver /\ pmReq'.platform = p)
          => PmStepEvents("construct", p) # {}
    /\ p \in DOMAIN uploaders
          => /\ p \in DOMAIN uploaders'
             /\ uploaders[p].browser => uploaders'[p].browser

PmConstructed == pmReq.op = "construct" /\ pmResp = PmReturned

\* the text of a stem is "<p>_<name>" with p a supported platform and name
\* not empty; stated on the text, not on the tokens
WellFormedStem(stem, p, name) ==
    /\ p \in supported_platforms
    /\ name # ""
    /\ Join(stem) = p \o "_" \o name

\* names a stem of DiscoveryFiles can spell after a platform prefix
DiscoveryNames == {"alice", "bob", "a_b", "dora", "", "channel_bob"}

\* C14: after construction an account is registered for a '<stem>.json'
\* file of the cookie directory iff the stem is '<p>_<name>' with p one of
\* douyin, wechat_channel, xiaohongshu and name non-empty; it is registered
\* under platform p and that name, logged in, with cookie_file that file;
\* no other account is registered.
C14_Discovery ==
    PmConstructed
        => /\ \A f \in Glob(pmReq.cookies_dir.files) :
                \A p \in supported_platforms, name \in DiscoveryNames :
                    WellFormedStem(f.stem, p, name)
                       => /\ AccountKey(p, name) \in DOMAIN accounts
                          /\ accounts[AccountKey(p, name)]
                               = Account(p, name, TRUE, FilePath(f))
           /\ \A key \in DOMAIN accounts :
                \E f \in Glob(pmReq.cookies_dir.files) :
                    /\ WellFormedStem(f.stem, key[1], key[2])
                    /\ accounts[key].cookie_file = FilePath(f)
                    /\ accounts[key].is_logged_in

C14_Witness ==
    /\ PmConstructed
    /\ pmReq.cookies_dir.files = DiscoveryFiles
    /\ DOMAIN accounts = {AccountKey("douyin", "alice"),
                          AccountKey("wechat_channel", "bob"),
                          AccountKey("xiaohongshu", "a_b")}

(***************************************************************************)
(* Claims about BatchUploadConfig (SpecConfig).                            *)
(***************************************************************************)
ConfigDone == schedOut # Pending

ConfigInvalid ==
    \/ schedIn.videos_per_day <= 0
    \/ schedIn.daily_times = <<>>
    \/ \E i \in 1..Len(schedIn.daily_times) :
         schedIn.daily_times[i] < 0 \/ schedIn.daily_times[i] > 23

Occurrences(v, h) == Cardinality({i \in 1..Len(v) : v[i] = h})

\* C15: construction fails when videos_per_day <= 0, when daily_times is
\* empty, or when an hour is outside 0..23, and succeeds otherwise; a
\* constructed config keeps videos_per_day and start_days and stores
\* daily_times in ascending order with the same multiset of hours.
C15_Validation ==
    ConfigDone
        => /\ ConfigInvalid <=> schedOut.raised = "ValueError"
           /\ ~ConfigInvalid
                => /\ schedOut.raised = "none"
                   /\ schedOut.config.videos_per_day = schedIn.videos_per_day
                   /\ schedOut.config.start_days = schedIn.start_days
                   /\ Len(schedOut.config.daily_times) = Len(schedIn.daily_times)
                   /\ \A i \in 1..(Len(schedOut.config.daily_times) - 1) :
                        schedOut.config.daily_times[i]
                           <= schedOut.config.daily_times[i + 1]
                   /\ \A h \in ConfigHours :
                        Occurrences(schedOut.config.daily_times, h)
                           = Occurrences(schedIn.daily_times, h)

C15_Witness ==
    /\ ConfigDone
    /\ schedIn.daily_times = <<21, 9, 21>>
    /\ schedIn.videos_per_day = 2
    /\ schedOut.raised = "none"
    /\ schedOut.config.daily_times = <<9, 21, 21>>

(***************************************************************************)
(* Claims about the Douyin driver (SpecDriver).                            *)
(***************************************************************************)
DuUploadDone == dsReq.op = "driver.upload_video" /\ dsResp # DsIdleResp

DuCalled(ev) == \E k \in 1..Len(dsLog) : dsLog[k].ev = ev

\* C16 as stated: when an upload call has returned and its browser was
\* launched, browser.close() has been called, and so has context.close()
\* when the context was created, whatever happened in between.  Violated:
\* new_context and new_page run ahead of the try block whose finally
\* clause closes, and the finally clause stops at a context.close() that
\* raises.
C16_AsStated ==
    (DuUploadDone /\ StepOk(dsLog, "launch"))
        => /\ DuCalled("browser.close")
           /\ StepOk(dsLog, "new_context") => DuCalled("context.close")

DuCheckDone == dsReq.op = "driver.check_cookie" /\ dsResp # DsIdleResp

DuRaised == \E k \in 1..Len(dsLog) : dsLog[k].ret = "raise"

DuCounted(ev, ret) ==
    \E k \in 1..Len(dsLog) : dsLog[k].ev = ev /\ dsLog[k].ret = ret

\* C17: check_cookie returns true exactly when the cookie file exists, the
\* wait for the upload-page URL succeeded, neither the phone-login nor the
\* QR-login prompt was found and nothing raised; without a cookie file it
\* returns false and no browser step is made; after any exception it
\* returns false.
C17_CheckCookie ==
    DuCheckDone =>
        /\ dsResp.success <=> /\ dsReq.env.cookie # None
                              /\ StepOk(dsLog, "wait_for_url")
                              /\ DuCounted("count_phone", "0")
                              /\ DuCounted("count_qr", "0")
                              /\ ~DuRaised
        /\ dsReq.env.cookie = None => ~dsResp.success /\ dsLog = <<>>
        /\ DuRaised => ~dsResp.success

\* a valid cookie: the check ran through the browser and returned true
C17_Witness ==
    /\ DuCheckDone
    /\ dsResp.success
    /\ StepOk(dsLog, "launch")
    /\ StepOk(dsLog, "browser.close")

(***************************************************************************)
(* Claims about DouyinService.check_account_status (SpecDouyin).           *)
(***************************************************************************)
DsStatusDone == dsReq.op = "check_account_status" /\ dsResp # DsIdleResp

DsLogged(ev, ret) ==
    \E k \in 1..Len(dsLog) : dsLog[k].ev = ev /\ dsLog[k].ret = ret

DsLoggedEv(ev) == \E k \in 1..Len(dsLog) : dsLog[k].ev = ev

\* C18: check_account_status returns an account for the requested name that
\* is not logged in, without constructing a driver, when the cookie file
\* does not exist; otherwise is_logged_in is what the driver's check_cookie
\* returned, and false when the check (or the construction) raised; the
\* cookie file is what it was before the call and no step of the call
\* writes it.
C18_AccountStatus ==
    DsStatusDone =>
        /\ dsResp.account.name = dsReq.account_name
        /\ dsResp.account.cookie_file
             = get_cookie_file_path(dsReq.account_name)
        /\ dsReq.env.driver.cookie = None
             => ~dsResp.account.is_logged_in /\ ~DsLoggedEv("new")
        /\ dsReq.env.driver.cookie # None
             => /\ DsLoggedEv("new")
                /\ dsResp.account.is_logged_in
                     <=> DsLogged("check_cookie", "true")
                /\ (DsLogged("check_cookie", "raise") \/ DsLogged("new", "raise"))
                     => ~dsResp.account.is_logged_in
        /\ dsResp.cookie = dsReq.env.driver.cookie
        /\ ~DsLoggedEv("storage_state")

\* a stored cookie that the driver finds valid
C18_Witness ==
    /\ DsStatusDone
    /\ dsReq.env.driver.cookie # None
    /\ DsLogged("check_cookie", "true")
    /\ dsResp.account.is_logged_in

\* no cookie file: answered without a driver
C18_WitnessMissing ==
    /\ DsStatusDone
    /\ dsReq.env.driver.cookie = None
    /\ dsLog = <<>>

(***************************************************************************)
(* Claims about title and tag resolution in DouyinService.upload_video     *)
(* (SpecDouyin).                                                           *)
(***************************************************************************)
DsSingleDone == dsReq.op = "upload_video" /\ dsResp # DsIdleResp

\* what the files next to each drawn video supply: the lines of a readable
\* sidecar, and the filename stem with no tags where there is no sidecar
\* or it cannot be read
SidecarSupplies(video_path) ==
    IF video_path = VideoPath("a", ".mp4")
    THEN [title |-> "side", tags |-> <<"s">>]
    ELSE IF video_path = VideoPath("d", ".mp4")
    THEN [title |-> "", tags |-> <<>>]
    ELSE [title |-> video_path.stem, tags |-> <<>>]

DsResolvedTitle ==
    LET v == dsReq.request.video_info
    IN  IF v.title \in {NoTitle, ""} THEN SidecarSupplies(v.video_path).title
        ELSE v.title

DsResolvedTags ==
    LET v == dsReq.request.video_info
    IN  IF v.tags = <<>> THEN SidecarSupplies(v.video_path).tags ELSE v.tags

C19_WitnessKept ==
    /\ DsSingleDone
    /\ dsResp.success
    /\ dsReq.request.video_info.title = "T"
    /\ dsReq.request.video_info.tags = <<"g">>
    /\ dsReq.request.video_info.video_path = VideoPath("a", ".mp4")
    /\ dsResp.title = "T"

(***************************************************************************)
(* Claims about ConfigService.load_config (SpecCfgService).                *)
(***************************************************************************)
CfgLoadDone == cfgResp.op = "load_config"

CfgFirstLoad == CfgLoadDone /\ cfgResp.cached_before = None

\* does the file give a configuration when it is loaded?
CfgParses(file) == file.kind = "json" /\ file.data.chrome_path # Missing

\* C20 as stated: a load_config on a service without a cached configuration
\* whose file does not exist, or does not parse, returns a default Config
\* (with the default Chrome path); in the missing-file case the file exists
\* on return.  Violated: Config() is constructed without chrome_path, a
\* required field, and raises.
C20_AsStated ==
    (CfgFirstLoad /\ ~CfgParses(cfgResp.file_before))
        => /\ cfgResp.outcome = "returned"
           /\ cfgResp.value # None
           /\ cfgResp.file_before = Absent => config_file # Absent

(***************************************************************************)
(* Claims about the save_config / load_config round trip (SpecCfgService). *)
(***************************************************************************)
CfgSaveDone == cfgResp.op = "save_config" /\ cfgResp.outcome = "returned"

\* C21: a save_config(c) that returns leaves the dump of c in the file, and
\* a load_config of a service without a cached configuration over a file
\* that holds the dump of a valid Config c returns a Config equal to c in
\* chrome_path, cookies_dir, logs_dir and videos_dir and leaves the file as
\* it was, so that saving the result again writes the same file.
C21_RoundTrip ==
    /\ CfgSaveDone
         => /\ cached_config # None
            /\ config_file = Json(model_dump(Get(cached_config)))
    /\ \A c \in Configs :
         (CfgFirstLoad /\ cfgResp.file_before = Json(model_dump(c)))
            => /\ cfgResp.outcome = "returned"
               /\ cfgResp.value = Some(c)
               /\ config_file = cfgResp.file_before
               /\ Json(model_dump(Get(cfgResp.value))) = cfgResp.file_before

\* a save of a Config with a directory of its own, a new service over the
\* same file, and its load
C21_Witness ==
    /\ CfgFirstLoad
    /\ cfgLog = <<"write", "init", "read">>
    /\ cfgResp.outcome = "returned"
    /\ Get(cfgResp.value).cookies_dir = Path(<<"/tmp", "cookies">>)
    /\ Get(cfgResp.value).videos_dir = Path(<<"v">>)

(***************************************************************************)
(* Claims about the HTTP router (SpecApi).                                 *)
(***************************************************************************)
ApiDone == dsResp # ApiIdleResp

\* C22: when app.state holds no config, every endpoint answers with status
\* 500 and makes no service (driver) call and no file write, whatever the
\* file type and extension given to upload-file are.
C22_NoConfig ==
    (ApiDone /\ dsReq.app_config = None)
        => /\ dsResp.status = 500
           /\ dsLog = <<>>

\* upload-file without a config, with a file type and an extension that
\* would be refused with status 400 once the config is there
C22_Witness ==
    /\ ApiDone
    /\ dsReq.app_config = None
    /\ dsReq.endpoint = "upload_file"
    /\ dsReq.file_type = "audio"
    /\ dsReq.suffix = ".txt"
    /\ dsResp.status = 500

C22_WitnessLogin ==
    /\ ApiDone
    /\ dsReq.app_config = None
    /\ dsReq.endpoint = "login"
    /\ dsResp.status = 500

(***************************************************************************)
(* Claims about get_title_and_hashtags (SpecSidecar).                      *)
(***************************************************************************)
SidecarDone == dsReq.op = "get_title_and_hashtags" /\ dsResp # DsIdleResp

\* the file the function reads: the path with .mp4 replaced by .txt, which
\* is the video itself when the name has no .mp4
FileRead ==
    IF dsReq.filename.suffix = ".mp4" THEN dsReq.sidecar ELSE dsReq.video

\* the maximal runs of characters other than the space, as strings
RECURSIVE Words(_, _)
Words(s, word) ==
    IF s = <<>> THEN (IF word = "" THEN <<>> ELSE <<word>>)
    ELSE IF Head(s) = " "
    THEN (IF word = "" THEN <<>> ELSE <<word>>) \o Words(Tail(s), "")
    ELSE Words(Tail(s), word \o Head(s))

\* line n of a text (the characters between newline n-1 and newline n), or
\* None when the text has fewer lines
RECURSIVE Line(_, _)
Line(text, n) ==
    LET ends == {k \in 1..Len(text) : text[k] = "\n"}
        first == IF ends = {} THEN Len(text) + 1
                 ELSE CHOOSE k \in ends : \A j \in ends : k <= j
    IN  IF n = 1 THEN Some(SubSeq(text, 1, first - 1))
        ELSE IF ends = {} THEN None
        ELSE Line(SubSeq(text, first + 1, Len(text)), n - 1)

\* the title and tags that the first two lines of a text give
TitleAndTags(text) ==
    [title |-> Join(strip(Get(Line(text, 1)))),
     tags |-> IF Line(text, 2) = None THEN <<>>
              ELSE Words(Remove(Get(Line(text, 2)), "#"), "")]

Fallback == [title |-> "clip", tags |-> <<>>]

C23_WitnessBlankLine ==
    /\ SidecarDone
    /\ dsReq.filename.suffix = ".mp4"
    /\ dsReq.sidecar = TextFile(TRUE, <<"\n", "T", "\n", "#", "a">>)
    /\ dsResp = [title |-> "T", tags |-> <<"a">>]

(***************************************************************************)
(* Claims about the step order of one Douyin v1 upload (SpecDriver).       *)
(***************************************************************************)
DuCookieWritten == dsResp.cookie # dsReq.env.cookie

\* C25 as stated: the cookie file is written only after _publish_video has
\* returned, an upload that returns false has not written the cookie file,
\* and an upload that returns true has written it.  Violated: the finally
\* clause runs after the write, and a context.close() or browser.close()
\* that raises there turns the result into false.
C25_AsStated ==
    DuUploadDone
        => /\ \A k \in 1..Len(dsLog) :
                dsLog[k].ev = "storage_state"
                    => \E j \in 1..(k - 1) : /\ dsLog[j].ev = "_publish_video"
                                             /\ dsLog[j].ret = "ok"
           /\ ~dsResp.success => ~DuCookieWritten
           /\ dsResp.success => StepOk(dsLog, "storage_state")

DuBodySteps ==
    BodySteps(dsReq.request.thumbnail_path, dsReq.request.publish_date)

\* the step that follows a step of the try block
DuNextStep(ev) ==
    LET j == CHOOSE i \in 1..Len(DuBodySteps) : DuBodySteps[i] = ev
    IN  DuBodySteps[j + 1]

\* C26: a failure inside the thumbnail, location, third-party-sync or
\* schedule step does not leave the step as an exception: the step that
\* follows it in the flow runs next, and the publish loop is reached.
C26_NonCritical ==
    DuUploadDone
        => \A k \in 1..Len(dsLog) :
             dsLog[k].ev \in NonCriticalSteps
                => /\ dsLog[k].ret \in {"ok", "failed"}
                   /\ k < Len(dsLog)
                   /\ dsLog[k + 1].ev = DuNextStep(dsLog[k].ev)
                   /\ DuCalled("_publish_video")

\* all four steps fail and the upload still succeeds
C26_Witness ==
    /\ DuUploadDone
    /\ \A step \in NonCriticalSteps : DuCounted(step, "failed")
    /\ StepOk(dsLog, "_publish_video")
    /\ dsResp.success

(***************************************************************************)
(* Claims about the wait loops of a Douyin upload (SpecUpload,             *)
(* SpecUploadLive).                                                        *)
(***************************************************************************)
UpV1 == up.pc # "idle" /\ up.version = "v1"

UpV2 == up.pc # "idle" /\ up.version = "v2"

UpReturned == up.pc = "returned"

UpLogged(ev) == \E k \in 1..Len(up.log) : up.log[k].ev = ev

UpLoggedAs(ev, ret) ==
    \E k \in 1..Len(up.log) : up.log[k].ev = ev /\ up.log[k].ret = ret

\* the positions after the publish-page wait and after the upload wait
UpPastPublishPage ==
    up.pc \in {"wait_upload", "steps", "publish", "publish_wait"}
    \/ (UpReturned /\ UpLogged("fill"))

UpPastUploadWait ==
    up.pc \in {"steps", "publish", "publish_wait"}
    \/ (UpReturned /\ UpLogged("wait_upload"))

\* the v1 loops leave only on what they wait for, but for the publish loop,
\* which also ends when its screenshot raises (the upload then fails)
UpLoopExits ==
    /\ UpPastPublishPage
         => /\ page.url \in PublishUrls \cup {ManageUrl}
            /\ \E url \in PublishUrls :
                 UpLoggedAs("_wait_for_publish_page", url)
    /\ UpPastUploadWait => page.reupload
    /\ (UpReturned /\ UpPastUploadWait)
         => \/ /\ up.result = "true"
               /\ page.url = ManageUrl
               /\ UpLoggedAs("_publish_video", ManageUrl)
            \/ /\ up.result = "false"
               /\ up.screenshot_raises
               /\ UpLoggedAs("_publish_video", "raise")
               /\ ~up.cookie_saved

\* C24: in a v1 upload the publish-page wait and the upload wait end only
\* on one of the two publish URLs and on the re-upload control; the publish
\* loop ends on the content-management URL or when the screenshot taken
\* after a failed turn raises, which makes the upload return false; and
\* when the platform reaches each state that is waited for, the upload
\* returns.
C24_Loops == [](UpV1 => UpLoopExits) /\ (UpV1 ~> UpReturned)

\* C24 as stated: an upload that has returned has seen the success
\* condition of each of the three loops.
C24_AsStated ==
    (UpV1 /\ UpReturned)
        => /\ \E url \in PublishUrls :
                UpLoggedAs("_wait_for_publish_page", url)
           /\ UpLoggedAs("wait_upload", "reupload")
           /\ UpLoggedAs("_publish_video", ManageUrl)

\* a v1 upload that went round its loops and returned true
C24_Witness ==
    /\ UpV1
    /\ UpReturned
    /\ up.result = "true"
    /\ up.attempts = MaxAttempts
    /\ page.failures = MaxFailures

\* a v1 upload that is still in its publish loop after MaxAttempts turns
C24_WitnessWaiting ==
    /\ UpV1
    /\ up.pc = "publish"
    /\ up.attempts = MaxAttempts
    /\ page.url # ManageUrl

\* C27 as stated: in both drivers every turn of the upload wait that finds
\* the upload-failed indicator gives the video file of this upload to the
\* retry input.  Violated by v2, which reads self.current_video_path, an
\* attribute that no code sets.
C27_AsStated ==
    up.pc # "idle"
        => /\ up.resubmits = up.seen_failed
           /\ page.retry_file \in {None, Some(ClipPath)}

\* C28 as stated: a v2 upload on a logged-in driver that returns, after
\* the platform reached every state that was waited for, has run its steps
\* in order, has saved the cookies and returns true.  Violated: the read
\* of video_info.schedule_time raises and the upload returns false.
C28_AsStated ==
    (UpV2 /\ UpReturned /\ up.logged_in)
        => /\ up.result = "true"
           /\ up.cookie_saved
           /\ UpLoggedAs("_publish_video", ManageUrl)

(***************************************************************************)
(* Claims about the scan-login drivers (SpecScan).                         *)
(***************************************************************************)
ScDone == dsResp # DsIdleResp

ScUploadDone == ScDone /\ dsReq.op = "scan.upload_video"

ScLoginDone == ScDone /\ dsReq.op = "scan.login"

\* the positions of an event in the log of the call
ScAt(ev) == {k \in 1..Len(dsLog) : dsLog[k].ev = ev}

ScReturned(ev, ret) == \E k \in ScAt(ev) : dsLog[k].ret = ret

\* the _save_cookies calls of a WeChat Channels upload are where
\* upload_video makes them: one call, after _wait_video_processing returned
\* true and before every click and wait of the publish loop, and no call
\* when the file selection or the processing wait returned false
ScSaveInOrder ==
    /\ dsResp.success =>
          /\ Cardinality(ScAt("_save_cookies")) = 1
          /\ \A s \in ScAt("_save_cookies") :
                /\ \E w \in ScAt("_wait_video_processing") :
                      w < s /\ dsLog[w].ret = "true"
                /\ \A p \in ScAt("publish.click")
                          \cup ScAt("publish.wait_for_url") : s < p
    /\ (ScReturned("_upload_video_file", "false")
           \/ ScReturned("_wait_video_processing", "false"))
          => ScAt("_save_cookies") = {} /\ ~dsResp.success

\* C29: a WeChat Channels upload that returns true has saved the cookies
\* exactly once, after the processing wait returned true and before the
\* first click of the publish loop, and an upload whose file selection or
\* processing wait failed has saved nothing.  Stated for the runs in which
\* writing the file does not fail; it does not hold: a driver whose login
\* was never called has no current_account, and its save writes nothing.
C29_AsStated ==
    (ScUploadDone /\ ~dsReq.env.save_fails) =>
        /\ ScSaveInOrder
        /\ dsResp.success => /\ ScReturned("_save_cookies", "ok")
                              /\ dsResp.cookie = Some("fresh")
        /\ ~dsResp.success => dsResp.cookie = dsReq.cookie

\* path (a) of login: the verification of the session returned true
ScVerified == ScReturned("_verify_login_status", "true")

\* path (b) of login: scan login was judged necessary and the completion
\* URL was reached within the timeout
ScScanned ==
    /\ ScReturned("_need_scan_login", "true")
    /\ ScReturned("_wait_for_login_success", "true")

\* C30: login of the WeChat Channels and Xiaohongshu drivers returns true
\* exactly when the stored session was verified or a necessary scan login
\* reached the completion URL in time; the cookie file changes only on the
\* scan path; is_logged_in is true after every call that returns true and
\* is what it was before after every call that returns false, a call that
\* ends in the exception handler included.
C30_ScanLogin ==
    ScLoginDone =>
        /\ dsResp.success <=> (ScVerified \/ ScScanned)
        /\ ~(ScVerified /\ ScScanned)
        /\ dsResp.cookie # dsReq.cookie => ScScanned
        /\ ScAt("_save_cookies") # {} => ScScanned
        /\ dsResp.success => dsResp.self.is_logged_in
        /\ ~dsResp.success =>
              dsResp.self.is_logged_in = dsReq.self.is_logged_in
        /\ dsReq.platform = "xiaohongshu" /\ ScAt("_verify_login_status") # {}
              => ScReturned("_load_cookies", "true")

\* a scan login that reached the completion URL: the cookie file is
\* written and is_logged_in goes from false to true
C30_Witness ==
    /\ ScLoginDone
    /\ dsResp.success
    /\ ScScanned
    /\ ~dsReq.self.is_logged_in
    /\ dsResp.self.is_logged_in
    /\ dsReq.cookie = None
    /\ dsResp.cookie = Some("fresh")

\* a login on a logged-in driver that ends in the exception handler:
\* false is returned and is_logged_in stays true
C30_WitnessException ==
    /\ ScLoginDone
    /\ ~dsResp.success
    /\ ScReturned("goto", "raise") \/ ScReturned("reload", "raise")
    /\ dsReq.self.is_logged_in
    /\ dsResp.self.is_logged_in

\* a login that verified the stored session: true with no cookie write
C30_WitnessVerified ==
    /\ ScLoginDone
    /\ dsResp.success
    /\ ScVerified
    /\ dsResp.cookie = dsReq.cookie
    /\ dsReq.platform = "xiaohongshu"

KsDone == ScDone /\ dsReq.op = "kuaishou._publish_video"

\* the page after the click is one of the two works pages
KsOnWorksPage == dsReq.env.url \in {KsManageUrl, KsContentUrl}

\* C31: a Kuaishou _publish_video whose click did not raise returns true
\* whatever page the browser is on afterwards; _save_cookies is called only
\* when the URL contains "manage" or "content"; false is returned only
\* when the button lookup or the click raised.
C31_KuaishouPublish ==
    KsDone =>
        /\ ScReturned("click", "ok") => dsResp.success
        /\ ScAt("_save_cookies") # {} =>
              /\ ScReturned("click", "ok")
              /\ KsOnWorksPage
        /\ dsResp.cookie # dsReq.cookie => KsOnWorksPage
        /\ ~dsResp.success =>
              ScReturned("count", "raise") \/ ScReturned("click", "raise")

\* the publish button was clicked, the page stayed on the publish form,
\* and true was returned with no cookie save
C31_Witness ==
    /\ KsDone
    /\ ScReturned("click", "ok")
    /\ ~KsOnWorksPage
    /\ dsResp.success
    /\ ScAt("_save_cookies") = {}

\* the works page was reached and the cookies were saved
C31_WitnessSaved ==
    /\ KsDone
    /\ dsResp.success
    /\ KsOnWorksPage
    /\ dsResp.cookie = Some("fresh")
    /\ dsReq.cookie = None

(***************************************************************************)
(* Claims about concurrent operations (SpecCookieRace).                    *)
(***************************************************************************)
CrWrote(t) == \E k \in 1..Len(shared.writes) : shared.writes[k] = t

CrLastWriter == shared.writes[Len(shared.writes)]

\* the file holds a state whose context never saw the write of task t
CrLost(t) ==
    /\ CrWrote(t)
    /\ CrLastWriter # t
    /\ Get(shared.cookie).base # t

\* C32: nothing orders the cookie writes of concurrent operations on one
\* account: every operation that reaches its save point writes the file
\* whatever happened to it in between, a write is possible whenever a
\* save point is reached, and the file always holds exactly the state of
\* the last writer.
C32_LastWriterWins ==
    /\ \A t \in TaskIds :
          /\ tasks[t].pc = "returned_true" <=> CrWrote(t)
          /\ tasks[t].pc = "storage_state" => ENABLED CrStorageState
    /\ shared.writes # <<>> =>
          /\ ~IsNone(shared.cookie)
          /\ Get(shared.cookie).by = CrLastWriter
          /\ Get(shared.cookie) = Get(tasks[CrLastWriter].session)

\* both operations have saved and the first writer's state is gone: the
\* file holds the state of the second, whose context was created before
\* the first one wrote
C32_Witness ==
    /\ Len(shared.writes) >= 2
    /\ \A t \in TaskIds : tasks[t].pc \in {"returned_true", "returned_false"}
    /\ \E t \in TaskIds : CrLost(t)

\* the same with a login overwritten by an upload
C32_WitnessLoginUpload ==
    /\ Len(shared.writes) >= 2
    /\ \E t \in TaskIds :
          /\ CrLost(t)
          /\ tasks[t].op = "login"
          /\ tasks[CrLastWriter].op = "upload"

BrInStart(t) == tasks[t].pc \in {"playwright.start", "launch", "new_page"}

BrDrivers == {p \in SharedPlatforms : ~IsNone(shared.uploaders[p])}

\* C34: while requests for one platform are in flight, start_browser is
\* called at most once on the cached driver from the moment its browser is
\* found unset, and every browser launched for the driver is the one its
\* browser field refers to.  It does not hold: the test of the browser
\* field and its assignment are separated by the awaits of start_browser.
C34_AsStated ==
    /\ \A t1, t2 \in TaskIds :
          (/\ t1 # t2
           /\ tasks[t1].platform = tasks[t2].platform
           /\ BrInStart(t1))
             => ~BrInStart(t2)
    /\ \A p \in BrDrivers :
          \A b \in Get(shared.uploaders[p]).launched :
             Get(shared.uploaders[p]).browser = Some(b)

(***************************************************************************)
(* Claims about two accounts on the shared driver (SpecShared).            *)
(***************************************************************************)
\* the names of the accounts whose cookie file the last operation wrote
ShWritten == {pmLog[i].ret : i \in PmEvents(pmLog, "_save_cookies")}

\* C33: every cookie file written during a PlatformManager operation is
\* the file of the account the operation was requested for.  It does not
\* hold: upload_video on the shared WeChat driver saves to the account of
\* the driver's last login.
C33_AsStated == \A name \in ShWritten : name = pmReq.account_name

(***************************************************************************)
(* Further claims about the platform manager (SpecPM).                     *)
(***************************************************************************)
\* C35: login, upload_video, batch_upload and close_all_uploaders never
\* take an account out of the registry and never turn its is_logged_in
\* from true to false, whatever the outcome of the operation.
C35_FlagMonotonic ==
    [][pmReq'.op \in {"login", "upload_video", "batch_upload",
                      "close_all_uploaders"}
         => \A key \in DOMAIN accounts :
              /\ key \in DOMAIN accounts'
              /\ accounts[key].is_logged_in => accounts'[key].is_logged_in]_vars

\* an auto-discovered account whose login has just failed is still
\* logged in
C35_Witness ==
    /\ pmReq.op = "login"
    /\ ~IsPropagated(pmResp)
    /\ ~pmResp.success
    /\ PmEvents(pmLog, "login") # {}
    /\ AccountKey(pmReq.platform, pmReq.account_name) \in DOMAIN accounts
    /\ accounts[AccountKey(pmReq.platform, pmReq.account_name)].is_logged_in

\* a logged-in account after close_all_uploaders
C35_WitnessClosed ==
    /\ pmReq.op = "close_all_uploaders"
    /\ \E key \in DOMAIN accounts : accounts[key].is_logged_in

\* every key is the platform and name of the account stored under it, and
\* the platform is a supported one
RegistryKeyed(registry) ==
    \A key \in DOMAIN registry :
        /\ key = <<registry[key].platform, registry[key].name>>
        /\ registry[key].platform \in {"douyin", "wechat_channel",
                                       "xiaohongshu"}

PmFirstLogin ==
    /\ pmReq'.op = "login"
    /\ <<pmReq'.platform, pmReq'.account_name>> \notin DOMAIN accounts

\* C36: the account registry is keyed by platform and name of the account
\* it stores, on supported platforms only; login and add_account for any
\* other platform leave the registry as it was; a first login on a
\* supported platform that does not succeed leaves the new account
\* registered and not logged in.
C36_Registry ==
    /\ []RegistryKeyed(accounts)
    /\ [][/\ (/\ pmReq'.op \in {"login", "add_account"}
              /\ pmReq'.platform \notin {"douyin", "wechat_channel",
                                         "xiaohongshu"})
             => accounts' = accounts /\ ~pmResp'.success
          /\ (/\ PmFirstLogin
              /\ pmReq'.platform \in {"douyin", "wechat_channel",
                                      "xiaohongshu"}
              /\ (IsPropagated(pmResp') \/ ~pmResp'.success))
             => /\ <<pmReq'.platform, pmReq'.account_name>>
                      \in DOMAIN accounts'
                /\ ~accounts'[<<pmReq'.platform,
                                pmReq'.account_name>>].is_logged_in]_vars

\* a first login on a shared-driver platform failed in the driver and the
\* account is registered, not logged in
C36_Witness ==
    /\ pmReq.op = "login"
    /\ pmReq.platform = "wechat_channel"
    /\ ~IsPropagated(pmResp)
    /\ ~pmResp.success
    /\ <<pmReq.platform, pmReq.account_name>> \in DOMAIN accounts
    /\ ~accounts[<<pmReq.platform, pmReq.account_name>>].is_logged_in
    /\ accounts[<<pmReq.platform, pmReq.account_name>>].cookie_file = None

\* a login for an unsupported platform was refused with an empty registry
C36_WitnessUnsupported ==
    /\ pmReq.op = "login"
    /\ pmReq.platform = "bilibili"
    /\ ~pmResp.success
    /\ accounts = EmptyRegistry

\* the page actions of the original-declaration flow taken by the call:
\* a checkbox checked, the declare button clicked
ScOriginalSteps == ScAt("original.check") \cup ScAt("original.declare")

\* C37: a WeChat Channels upload whose video_info.original_statement is
\* false takes no step of the original-declaration flow, and one whose
\* flag is true and that got as far as the video information attempts it.
\* It does not hold: upload_video calls _set_original_declaration once
\* more after _add_collection, whatever the flag.
C37_AsStated ==
    ScUploadDone =>
        /\ ~dsReq.video_info.original_statement => ScOriginalSteps = {}
        /\ (dsReq.video_info.original_statement
               /\ ScAt("_add_collection") # {})
              => ScAt("_set_original_declaration") # {}

(***************************************************************************)
(* Publish timestamps of a Douyin batch.                                   *)
(***************************************************************************)
\* datetime's order, as seconds since the start of day 0
TimeKey(t) == ((t.day * 24 + t.hour) * 60 + t.minute) * 60 + t.second

\* the publish_date each DouyinUploader of the batch was constructed with,
\* in the order of construction
DsAssigned == SelectSeq(dsLog, LAMBDA e : e.ev = "new")

DsBatchRan == DsBatchDone /\ dsResp.message = "batch upload finished"

DsHoursDistinct ==
    \A i, j \in 1..Len(dsReq.request.config.daily_times) :
        i # j => dsReq.request.config.daily_times[i]
                    # dsReq.request.config.daily_times[j]

\* C38: in a batch of DouyinService.batch_upload with a validated config,
\* every uploader is constructed with a publish timestamp (never None), a
\* batch that reaches the loop constructs one uploader per video, in list
\* order, and the timestamps are non-decreasing in that order, strictly
\* increasing when the configured hours are pairwise distinct.
C38_ScheduleOrder ==
    DsBatchDone
        => /\ \A k \in 1..Len(DsAssigned) : ~IsNone(DsAssigned[k].publish_date)
           /\ DsBatchRan
                => /\ Len(DsAssigned) = Len(dsReq.request.video_list)
                   /\ \A k \in 1..Len(DsAssigned) : DsAssigned[k].drv = k
           /\ \A k \in 1..(Len(DsAssigned) - 1) :
                /\ TimeKey(Get(DsAssigned[k].publish_date))
                     <= TimeKey(Get(DsAssigned[k + 1].publish_date))
                /\ DsHoursDistinct
                     => TimeKey(Get(DsAssigned[k].publish_date))
                          < TimeKey(Get(DsAssigned[k + 1].publish_date))

\* two videos on one day, the hours given out of order in the request
C38_Witness ==
    /\ DsBatchRan
    /\ Len(DsAssigned) = 2
    /\ dsReq.request.config.videos_per_day = 2
    /\ dsReq.request.config.daily_times = <<9, 21>>
    /\ Get(DsAssigned[1].publish_date).day = Get(DsAssigned[2].publish_date).day
    /\ Get(DsAssigned[1].publish_date).hour = 9
    /\ Get(DsAssigned[2].publish_date).hour = 21

\* the same hour twice: equal timestamps, so the order is not strict
C38_WitnessEqual ==
    /\ DsBatchRan
    /\ Len(DsAssigned) = 2
    /\ ~DsHoursDistinct
    /\ DsAssigned[1].publish_date = DsAssigned[2].publish_date

\* one video per day: the second timestamp is a day later
C38_WitnessNextDay ==
    /\ DsBatchRan
    /\ Len(DsAssigned) = 2
    /\ dsReq.request.config.videos_per_day = 1
    /\ Get(DsAssigned[2].publish_date).day
         = Get(DsAssigned[1].publish_date).day + 1

\* C39 as stated: batch_upload of the Douyin service reports success = true
\* only if at least one item of the batch was uploaded successfully; a batch
\* in which every item fails, and an empty batch, report success = false.
C39_AsStated ==
    DsBatchDone
        => (dsResp.success
              => \E k \in 1..Len(dsResp.results) : dsResp.results[k].success)

(***************************************************************************)
(* Claims about a save_config whose write fails (SpecCfgService).          *)
(***************************************************************************)
CfgSaveFailed == cfgResp.op = "save_config" /\ cfgResp.outcome # "returned"

CfgLastLog == IF cfgLog = <<>> THEN "none" ELSE cfgLog[Len(cfgLog)]

\* C40: a save_config whose write fails raises and leaves the cached config
\* as it was; the cache is replaced, by the config that was written, only
\* when the write succeeded; the load_config that follows a failed save
\* returns the cached instance without touching the file, or, when nothing
\* is cached, reads the file again if there is one.
C40_SaveAtomic ==
    /\ [](/\ CfgSaveFailed
               => /\ cached_config = cfgResp.cached_before
                  /\ CfgLastLog = "write failed"
          /\ CfgSaveDone
               => /\ CfgLastLog = "write"
                  /\ cached_config # None
                  /\ config_file = Json(model_dump(Get(cached_config))))
    /\ [][(CfgSaveFailed /\ cfgResp'.op = "load_config")
            => IF cached_config # None
               THEN /\ cfgResp'.outcome = "returned"
                    /\ cfgResp'.value = cached_config
                    /\ UNCHANGED <<cached_config, config_file, cfgLog>>
               ELSE config_file # Absent
                      => cfgLog' = Append(cfgLog, "read")]_vars

\* a config is cached, the save of another one fails, and load_config
\* returns the one that was cached
C40_Witness ==
    /\ cfgResp.op = "load_config"
    /\ cfgResp.outcome = "returned"
    /\ cfgLog = <<"write", "write failed">>
    /\ cfgResp.value = cached_config
    /\ config_file = Json(model_dump(Get(cached_config)))

\* the failing write has emptied the file of the cached config
C40_WitnessTruncated ==
    /\ cfgResp.op = "load_config"
    /\ cfgResp.outcome = "returned"
    /\ cfgLog = <<"write", "write failed">>
    /\ cfgResp.value = cached_config
    /\ config_file = Invalid

\* nothing is cached, the save fails, and load_config reads the file
C40_WitnessReread ==
    /\ cfgResp.op = "load_config"
    /\ cfgResp.outcome = "returned"
    /\ cfgLog = <<"write failed", "read">>
    /\ cfgResp.cached_before = None
    /\ cached_config # None

==============================================================================
